---- MODULE Spec2Model ----
(***************************************************************************)
(* A model of the flow SDK: the auction finder, the Flow task manager's    *)
(* submit and cancel workflows, the Foundry facade's instance-type lookup, *)
(* the authenticator's login with transport retries, and the CLI entry     *)
(* point.  Each component has its own specification over its own group of  *)
(* variables; the other groups stay at their idle values.                  *)
(***************************************************************************)
EXTENDS Integers, Sequences, FiniteSets, TLC

VARIABLES
    \* ---- auction finder (auction_finder.py) ----
    fAuctions,      \* the list handed to find_matching_auctions
    fCriteria,      \* the ResourcesSpecification handed to it
    fResult,        \* the list it returned
    fPc,            \* "ready" | "done"
    \* ---- FlowTaskManager (managers/task_manager.py) ----
    tOp,            \* the method called: "run" | "cancel"
    tConfig,        \* config_parser.config, or no config parser at all
    tName,          \* the name given to cancel_bid
    tPc,            \* how far the method has come
    tErr,           \* the kind of exception that left the method, "" if none
    tCalls,         \* the platform operations invoked so far, in order
    tLoc,           \* the locals the steps of run() hand on
    tSeen,          \* what the platform answered
    \* ---- Authenticator (clients/authenticator.py) ----
    aMaxRetries,    \* the max_retries the Authenticator was given
    aAttempts,      \* the answers to the POST /login attempts so far
    aPc,            \* "sending" | "finished"
    aResult,        \* the token, or the exception the constructor raised
    \* ---- FoundryClient.get_instance_type (clients/foundry_client.py) ----
    iId,            \* the instance_type_id asked for
    iAttempts,      \* the answers to the GET attempts so far
    iPc,            \* "sending" | "finished"
    iResult,        \* the DetailedInstanceType, or the exception raised
    \* ---- the flow command line (main.py) ----
    cArgs,          \* the parsed arguments: command, config_file, task_name
    cPc,            \* where main() is
    cRequests,      \* the network requests issued so far, in order
    cRaised,        \* what left the body of main(): "" while it runs
    cLog,           \* the error report: "" | "plain" | "traceback" | "warning" | "usage"
    cExit,          \* the process exit code, -1 while it runs
    \* ---- FlowTaskManager.prepare_limit_price_cents (managers/task_manager.py) ----
    pPriority,      \* the priority handed to prepare_limit_price_cents
    pThreshold,     \* the utility_threshold_price handed to it, or None
    pResult,        \* the cents it returned, or the exception it raised
    pPc,            \* "ready" | "done"
    \* ---- FlowTaskManager.check_status (managers/task_manager.py) ----
    sShowAll,       \* the show_all flag given to check_status
    sBids,          \* what get_bids answered
    sShown,         \* the bids handed to the formatter, if it was reached
    sErr,           \* the kind of exception that left check_status, "" if none
    sPc,            \* "ready" | "done" | "failed"
    \* ---- StorageClient._resolve_region_id (clients/storage_client.py) ----
    rgRegions,      \* what get_regions answered
    rgStr,          \* the region string to resolve
    rgResult,       \* what _resolve_region_id returned or raised
    rgPc,           \* "ready" | "done"
    \* ---- exception classes (utils/exceptions, managers/task_manager.py) ----
    xSite,          \* the raise statement that is reached
    xHandler,       \* the class named by the enclosing except clause
    xRaised,        \* the class of the raised exception, "" before the raise
    xCaught,        \* whether the except clause caught it
    xPc,            \* "ready" | "done"
    \* ---- SpinnerLogger (logging/spinner_logger.py) ----
    spW,            \* the SpinnerLogger object, its terminal and the calls made on the wrapped logger
    spScopes,       \* the spinner() scopes entered and not yet left, innermost first
    spRecords,      \* the levels of the records the handler intercepted, in arrival order
    spExit,         \* how the last scope was left
    spHandlerLevel, \* the level given to create_log_handler
    \* ---- Port (task_config/models.py) ----
    ptEntry,        \* the port entry of the configuration file
    ptPort,         \* the Port that validation produced, if it accepted the entry
    ptMappings,     \* what get_port_mappings returned or raised
    ptPc,           \* "ready" | "accepted" | "rejected" | "mapped"
    \* ---- Instance (models/instance.py) ----
    inArgs,         \* the fields given to the Instance constructor
    inObj,          \* the Instance after construction
    inPc,           \* "ready" | "done"
    \* ---- TableFormatter.format_instances (formatters/table_formatter.py) ----
    fiInstances,    \* the instances given to format_instances
    fiMaxRows,      \* max_rows of the TableFormatter
    fiRows,         \* the rows rendered, or the exception raised
    fiPc,           \* "ready" | "done"
    \* ---- FCPClient.place_bid (clients/fcp_client.py) ----
    pbAttempts,     \* the answered POSTs of one place_bid call, each with whether the platform stored a bid
    pbResult,       \* what place_bid returned or raised
    pbPc,           \* "sending" | "done"
    \* ---- main() and the spinners of a CLI command (main.py) ----
    dCommand,       \* the command of the CLI invocation
    dCli,           \* the SpinnerLogger main() creates
    dTm,            \* the SpinnerLogger of the FlowTaskManager the command creates
    dRecords,       \* the records of flow.task_config intercepted so far
    dExit,          \* the exit code of main(), -1 while it runs
    dPc             \* where main() is

finderVars == <<fAuctions, fCriteria, fResult, fPc>>
taskVars == <<tOp, tConfig, tName, tPc, tErr, tCalls, tLoc, tSeen>>
authVars == <<aMaxRetries, aAttempts, aPc, aResult>>
itypeVars == <<iId, iAttempts, iPc, iResult>>

cliVars == <<cArgs, cPc, cRequests, cRaised, cLog, cExit>>

priceVars == <<pPriority, pThreshold, pResult, pPc>>

statusVars == <<sShowAll, sBids, sShown, sErr, sPc>>

regionVars == <<rgRegions, rgStr, rgResult, rgPc>>

excVars == <<xSite, xHandler, xRaised, xCaught, xPc>>

spinnerVars == <<spW, spScopes, spRecords, spExit, spHandlerLevel>>

portVars == <<ptEntry, ptPort, ptMappings, ptPc>>

instanceVars == <<inArgs, inObj, inPc>>

tableVars == <<fiInstances, fiMaxRows, fiRows, fiPc>>

bidVars == <<pbAttempts, pbResult, pbPc>>

displayVars == <<dCommand, dCli, dTm, dRecords, dExit, dPc>>

vars == <<finderVars, taskVars, authVars, itypeVars, cliVars, priceVars, statusVars, regionVars, excVars, spinnerVars, portVars, instanceVars, tableVars, bidVars, displayVars>>

----------------------------------------------------------------------------
(* Bounds of the model.                                                    *)

MaxAuctions == 2        \* longest auction list the platform returns
MaxBids == 2            \* longest bid list the platform returns
MaxStatusBids == 3      \* longest bid list check_status is given
MaxRegions == 3         \* longest region list get_regions returns
MaxRecords == 2         \* records the spinner log handler intercepts
MaxInstances == 3       \* longest instance list format_instances is given
MaxScopes == 2          \* spinner() scopes entered in one run

----------------------------------------------------------------------------
(* Optional values: Python's None against a value.                         *)

NoneStr == [some |-> FALSE, v |-> <<>>]
NoneInt == [some |-> FALSE, v |-> 0]
NoneId == [some |-> FALSE, v |-> ""]
Some(x) == [some |-> TRUE, v |-> x]

\* Python truthiness of an Optional[str] held as a character sequence
TruthyStr(o) == o.some /\ Len(o.v) > 0
\* Python truthiness of an Optional[str] identifier
TruthyId(o) == o.some /\ o.v # ""
\* `(x or "")` for an Optional[str]
OrEmpty(o) == IF TruthyStr(o) THEN o.v ELSE <<>>

----------------------------------------------------------------------------
(* Strings are sequences of one-character strings, so that str.lower()     *)
(* and the regular expression of the finder are computed, not assumed.     *)

UpperChars ==
    {"A","B","C","D","E","F","G","H","I","J","K","L","M",
     "N","O","P","Q","R","S","T","U","V","W","X","Y","Z"}

LowerOf ==
    [c \in UpperChars |->
        CASE c = "A" -> "a" [] c = "B" -> "b" [] c = "C" -> "c" [] c = "D" -> "d"
          [] c = "E" -> "e" [] c = "F" -> "f" [] c = "G" -> "g" [] c = "H" -> "h"
          [] c = "I" -> "i" [] c = "J" -> "j" [] c = "K" -> "k" [] c = "L" -> "l"
          [] c = "M" -> "m" [] c = "N" -> "n" [] c = "O" -> "o" [] c = "P" -> "p"
          [] c = "Q" -> "q" [] c = "R" -> "r" [] c = "S" -> "s" [] c = "T" -> "t"
          [] c = "U" -> "u" [] c = "V" -> "v" [] c = "W" -> "w" [] c = "X" -> "x"
          [] c = "Y" -> "y" [] OTHER -> "z"]

LowerChars == {LowerOf[c] : c \in UpperChars}

DigitChars == {"0","1","2","3","4","5","6","7","8","9"}

\* the characters the regular expression class \w accepts
WordChars == UpperChars \cup LowerChars \cup DigitChars \cup {"_"}

LowerChar(c) == IF c \in UpperChars THEN LowerOf[c] ELSE c

\* str.lower()
Lower(s) == [i \in 1..Len(s) |-> LowerChar(s[i])]

\* \b at offset p of s (p characters lie before it)
AtWordBoundary(s, p) ==
    LET before == p >= 1 /\ s[p] \in WordChars
        after == p < Len(s) /\ s[p + 1] \in WordChars
    IN  before # after

\* a variant that leaves out the closing \b
WordPatternMatchesAt_NoClosingBoundary(lit, s, p) ==
    /\ p + Len(lit) <= Len(s)
    /\ AtWordBoundary(s, p)
    /\ \A k \in 1..Len(lit) : s[p + k] = lit[k]

\* the pattern \b + re.escape(lit) + \b matched at offset p of s
WordPatternMatchesAt(lit, s, p) ==
    /\ p + Len(lit) <= Len(s)
    /\ AtWordBoundary(s, p)
    /\ \A k \in 1..Len(lit) : s[p + k] = lit[k]
    /\ AtWordBoundary(s, p + Len(lit))

RECURSIVE ReSearchFrom(_, _, _)
\* re.search: the leftmost offset at or after p where the pattern matches
ReSearchFrom(lit, s, p) ==
    IF p > Len(s) THEN FALSE
    ELSE IF WordPatternMatchesAt(lit, s, p) THEN TRUE
    ELSE ReSearchFrom(lit, s, p + 1)

ReSearchWord(lit, s) == ReSearchFrom(lit, s, 0)

----------------------------------------------------------------------------
(* The strings the model draws from.                                       *)

S_A100 == <<"A","1","0","0">>
S_a100 == <<"a","1","0","0">>
S_H100 == <<"H","1","0","0">>
S_NVIDIA_A100 == <<"N","V","I","D","I","A"," ","A","1","0","0">>
S_NVIDIA_A1000 == <<"N","V","I","D","I","A"," ","A","1","0","0","0">>
S_NVIDIA_H100 == <<"N","V","I","D","I","A"," ","H","1","0","0">>
S_XA100 == <<"X","A","1","0","0">>
S_A100_SXM == <<"a","1","0","0","-","S","X","M">>
S_PCIe == <<"P","C","I","e">>
S_pcie == <<"p","c","i","e">>
S_IB == <<"I","B">>
S_critical == <<"c","r","i","t","i","c","a","l">>
S_high == <<"h","i","g","h">>
S_standard == <<"s","t","a","n","d","a","r","d">>
S_low == <<"l","o","w">>

----------------------------------------------------------------------------
(* Auctions (models/auction.py) and resource specifications                *)
(* (task_config/models.py).                                                *)

Auction(cid, gpu, inv, inter, intra, itid, region, rid) ==
    [cluster_id |-> cid, gpu_type |-> gpu, inventory_quantity |-> inv,
     internode_interconnect |-> inter, intranode_interconnect |-> intra,
     instance_type_id |-> itid, region |-> region, region_id |-> rid]

AuctionPalette ==
    { Auction("c1", Some(S_NVIDIA_A100), Some(4), Some(S_IB), Some(S_PCIe),
              Some("it1"), NoneId, Some("r1")),
      Auction("c2", Some(S_NVIDIA_A1000), Some(8), NoneStr, NoneStr,
              Some("it2"), Some("us-east"), NoneId),
      Auction("c3", NoneStr, NoneInt, NoneStr, NoneStr,
              Some("it3"), NoneId, Some("r3")),
      Auction("c4", Some(S_A100_SXM), Some(1), NoneStr, Some(S_pcie),
              NoneId, NoneId, Some("r1")),
      Auction("c5", Some(S_NVIDIA_H100), Some(4), Some(S_IB), Some(S_PCIe),
              Some("it5"), NoneId, NoneId),
      Auction("c6", Some(S_XA100), Some(4), NoneStr, NoneStr,
              Some("it6"), NoneId, Some("r1")),
      Auction("c7", Some(S_a100), Some(8), Some(S_IB), Some(S_pcie),
              Some("it7"), Some("us-east"), Some("r2")) }

ResourcesSpecification(gpu, ngpus, inter, intra, ninst) ==
    [gpu_type |-> gpu, num_gpus |-> ngpus,
     internode_interconnect |-> inter, intranode_interconnect |-> intra,
     num_instances |-> ninst]

CriteriaPalette ==
    { ResourcesSpecification(gpu, ngpus, inter, intra, ninst) :
        gpu \in {NoneStr, Some(<<>>), Some(S_A100), Some(S_a100), Some(S_H100)},
        ngpus \in {NoneInt, Some(0), Some(1), Some(8)},
        inter \in {NoneStr, Some(S_IB)},
        intra \in {NoneStr, Some(S_PCIe)},
        ninst \in {NoneInt, Some(2)} }

RECURSIVE SeqsUpTo(_, _)
\* all sequences over S of length at most n
SeqsUpTo(S, n) ==
    IF n = 0 THEN {<<>>}
    ELSE LET shorter == SeqsUpTo(S, n - 1)
         IN  shorter \cup {Append(q, x) : q \in shorter, x \in S}

AuctionLists == SeqsUpTo(AuctionPalette, MaxAuctions)

----------------------------------------------------------------------------
(* AuctionFinder (managers/auction_finder.py).                             *)

\* a variant that tests `expected in actual` instead of the pattern
GpuTypeCheck_Substring(auction, criteria) ==
    LET expected_gpu_type == Lower(criteria.gpu_type.v)
        actual_gpu_type == Lower(OrEmpty(auction.gpu_type))
    IN  \E p \in 0..(Len(actual_gpu_type) - Len(expected_gpu_type)) :
            SubSeq(actual_gpu_type, p + 1, p + Len(expected_gpu_type))
                = expected_gpu_type

\* the GPU-type check of _matches_criteria
GpuTypeCheck(auction, criteria) ==
    LET expected_gpu_type == Lower(criteria.gpu_type.v)
        actual_gpu_type == Lower(OrEmpty(auction.gpu_type))
    IN  ReSearchWord(expected_gpu_type, actual_gpu_type)

\* a variant that asks for exactly the requested count
NumGpusCheck_Exact(auction, criteria) ==
    LET expected_num_gpus == criteria.num_gpus.v
        actual_num_gpus == auction.inventory_quantity
    IN  actual_num_gpus.some /\ actual_num_gpus.v = expected_num_gpus

\* the capacity check of _matches_criteria
NumGpusCheck(auction, criteria) ==
    LET expected_num_gpus == criteria.num_gpus.v
        actual_num_gpus == auction.inventory_quantity
    IN  ~( (~actual_num_gpus.some) \/ (actual_num_gpus.v < expected_num_gpus) )

InterconnectCheck(actualOpt, expectedOpt) ==
    Lower(expectedOpt.v) = Lower(OrEmpty(actualOpt))

\* a variant that forgets the intranode interconnect
MatchesCriteria_NoIntranode(auction, criteria) ==
    IF TruthyStr(criteria.gpu_type) /\ ~GpuTypeCheck(auction, criteria)
    THEN FALSE
    ELSE IF criteria.num_gpus.some /\ ~NumGpusCheck(auction, criteria)
    THEN FALSE
    ELSE IF TruthyStr(criteria.internode_interconnect)
            /\ ~InterconnectCheck(auction.internode_interconnect,
                                  criteria.internode_interconnect)
    THEN FALSE
    ELSE TRUE

\* _matches_criteria
MatchesCriteria(auction, criteria) ==
    IF TruthyStr(criteria.gpu_type) /\ ~GpuTypeCheck(auction, criteria)
    THEN FALSE
    ELSE IF criteria.num_gpus.some /\ ~NumGpusCheck(auction, criteria)
    THEN FALSE
    ELSE IF TruthyStr(criteria.internode_interconnect)
            /\ ~InterconnectCheck(auction.internode_interconnect,
                                  criteria.internode_interconnect)
    THEN FALSE
    ELSE IF TruthyStr(criteria.intranode_interconnect)
            /\ ~InterconnectCheck(auction.intranode_interconnect,
                                  criteria.intranode_interconnect)
    THEN FALSE
    ELSE TRUE

RECURSIVE FindLoop(_, _, _, _)
\* the for loop of find_matching_auctions, from index i on
FindLoop(auctions, criteria, i, matching_auctions) ==
    IF i > Len(auctions) THEN matching_auctions
    ELSE FindLoop(auctions, criteria, i + 1,
                  IF MatchesCriteria(auctions[i], criteria)
                  THEN Append(matching_auctions, auctions[i])
                  ELSE matching_auctions)

FindMatchingAuctions(auctions, criteria) == FindLoop(auctions, criteria, 1, <<>>)

----------------------------------------------------------------------------
(* The finder called on its own.                                           *)

FinderIdle ==
    /\ fAuctions = <<>>
    /\ fCriteria = ResourcesSpecification(NoneStr, NoneInt, NoneStr, NoneStr, NoneInt)
    /\ fResult = <<>>
    /\ fPc = "idle"

FinderInit ==
    /\ fAuctions \in AuctionLists
    /\ fCriteria \in CriteriaPalette
    /\ fResult = <<>>
    /\ fPc = "ready"

FindMatching ==
    /\ fPc = "ready"
    /\ fResult' = FindMatchingAuctions(fAuctions, fCriteria)
    /\ fPc' = "done"
    /\ UNCHANGED <<fAuctions, fCriteria>>
    /\ UNCHANGED <<taskVars, authVars, itypeVars, cliVars, priceVars, statusVars, regionVars, excVars, spinnerVars, portVars, instanceVars, tableVars, bidVars, displayVars>>


----------------------------------------------------------------------------
(* Settings (config/base_settings.py, config/test_settings.py).            *)

foundry_project_name == "test_project"
foundry_ssh_key_name == "test_ssh_key"

\* prices are held in thousandths of a dollar: 4.24 USD is 4240
PRIORITY_PRICE_MAPPING ==
    { <<S_critical, 14990>>, <<S_high, 12290>>, <<S_standard, 4240>>, <<S_low, 2000>> }

\* dict.get(key): the mapped price, or None
PriceMapGet(key) ==
    IF \E e \in PRIORITY_PRICE_MAPPING : e[1] = key
    THEN Some((CHOOSE e \in PRIORITY_PRICE_MAPPING : e[1] = key)[2])
    ELSE [some |-> FALSE, v |-> 0]

NonePrice == [some |-> FALSE, v |-> 0]

\* int(float(price) * 100): the double product, truncated toward zero.
\* 0.29 * 100, 0.57 * 100, 1.15 * 100 and 19.99 * 100 fall just below the
\* integer in binary floating point; the other prices of the model multiply
\* exactly.
FloatTimes100ToInt(mills) ==
    CASE mills = 290 -> 28
      [] mills = 570 -> 56
      [] mills = 1150 -> 114
      [] mills = 19990 -> 1998
      [] mills >= 0 -> mills \div 10
      [] OTHER -> -((-mills) \div 10)

----------------------------------------------------------------------------
(* Task configuration (task_config/models.py: ConfigModel).                *)

TaskManagement(priority, utp) ==
    [priority |-> priority, utility_threshold_price |-> utp]

NoTaskManagement == [some |-> FALSE, v |-> TaskManagement(NoneStr, NonePrice)]

PersistentStorageCreate(volume_name, size, region_id, disk_interface) ==
    [volume_name |-> volume_name, size |-> size, region_id |-> region_id,
     disk_interface |-> disk_interface]

NoCreate == [some |-> FALSE, v |-> PersistentStorageCreate(NoneId, NoneInt, NoneId, NoneId)]

NoPersistentStorage == [some |-> FALSE, v |-> [create |-> NoCreate]]

ConfigModel(name, tm, rs, ps, ports) ==
    [name |-> name, task_management |-> tm, resources_specification |-> rs,
     persistent_storage |-> ps, ports |-> ports]

RS_A100x1 == ResourcesSpecification(Some(S_A100), Some(1), NoneStr, NoneStr, NoneInt)
RS_Any == ResourcesSpecification(NoneStr, NoneInt, NoneStr, NoneStr, Some(2))
RS_H100 == ResourcesSpecification(Some(S_H100), Some(8), NoneStr, NoneStr, NoneInt)

PS_Create == Some([create |-> Some(PersistentStorageCreate(Some("vol"), Some(10), Some("r-config"), NoneId))])
PS_CreateNoSize == Some([create |-> Some(PersistentStorageCreate(Some("vol"), NoneInt, NoneId, NoneId))])
PS_AttachOnly == Some([create |-> NoCreate])

\* ports: "none" (no section), "ok", or "mismatched" (a Port whose external
\* and internal ranges differ in length, which validation accepts)
ConfigPalette ==
    { ConfigModel("t1", NoTaskManagement, RS_A100x1, NoPersistentStorage, "none"),
      ConfigModel("t1", Some(TaskManagement(NoneStr, NonePrice)), RS_A100x1,
                  NoPersistentStorage, "none"),
      ConfigModel("t1", Some(TaskManagement(Some(S_high), Some(1230))), RS_Any,
                  NoPersistentStorage, "ok"),
      ConfigModel("t1", Some(TaskManagement(Some(S_low), Some(1))), RS_A100x1,
                  NoPersistentStorage, "none"),
      ConfigModel("t1", Some(TaskManagement(Some(S_standard), NonePrice)), RS_A100x1,
                  NoPersistentStorage, "mismatched"),
      ConfigModel("t2", Some(TaskManagement(Some(S_critical), NonePrice)), RS_A100x1,
                  PS_Create, "none"),
      ConfigModel("t2", Some(TaskManagement(NoneStr, Some(290))), RS_H100,
                  PS_CreateNoSize, "none"),
      ConfigModel("t2", Some(TaskManagement(NoneStr, NonePrice)), RS_Any,
                  PS_AttachOnly, "ok"),
      ConfigModel("t3", Some(TaskManagement(Some(S_low), NonePrice)), RS_Any,
                  PS_Create, "none") }

NoConfigParser == [some |-> FALSE, v |-> ConfigModel("", NoTaskManagement, RS_Any,
                                                      NoPersistentStorage, "none")]

----------------------------------------------------------------------------
(* What the platform answers.                                              *)

\* an answer is returned ("ok"), or the request raises; "none" marks a
\* request that was never made
Returns(x) == [st |-> "ok", v |-> x]
RaisesId == [st |-> "raise", v |-> ""]
RaisesList == [st |-> "raise", v |-> <<>>]
NotAskedId == [st |-> "none", v |-> ""]
NotAskedList == [st |-> "none", v |-> <<>>]

Project(id, name) == [id |-> id, name |-> name]
SshKey(id, name) == [id |-> id, name |-> name]
Bid(id, name, status) == [id |-> id, name |-> name, status |-> status]

UserResponses == { RaisesId, Returns("u1"), Returns("") }

ProjectsResponses ==
    { RaisesList,
      Returns(<<>>),
      Returns(<<Project("p1", foundry_project_name)>>),
      Returns(<<Project("p2", "other"), Project("p1", foundry_project_name)>>),
      Returns(<<Project("", foundry_project_name), Project("p3", foundry_project_name)>>) }

SshKeysResponses ==
    { RaisesList,
      Returns(<<>>),
      Returns(<<SshKey("k1", Some(foundry_ssh_key_name))>>),
      Returns(<<SshKey("k2", NoneId), SshKey("k1", Some(foundry_ssh_key_name))>>),
      Returns(<<SshKey("k3", Some(foundry_ssh_key_name)),
                SshKey("k1", Some(foundry_ssh_key_name))>>) }

AuctionsResponses == { RaisesList } \cup { Returns(l) : l \in AuctionLists }

\* no region has the name
NotFoundId == [st |-> "not_found", v |-> ""]

\* get_region_id_by_name: the id of the first region with the name, no
\* region with the name, or get_regions fails
RegionLookupResponses == { RaisesId, NotFoundId, Returns("r9"), Returns("") }

\* create_disk: the id the platform gave the new disk; it fails with an
\* APIError ("raise") or with any other exception ("raise_other")
CreateDiskResponses ==
    { RaisesId, [st |-> "raise_other", v |-> ""], Returns("disk-srv") }

PlaceBidResponses == { RaisesId, Returns("bid-new") }
CancelResponses == { RaisesId, Returns("cancelled") }

----------------------------------------------------------------------------
(* FlowTaskManager (managers/task_manager.py) and the managers it calls.   *)

Call(op, arg) == [op |-> op, arg |-> arg]

\* the first of the positions that hit, 0 if none does
FirstIndex(hits) ==
    IF hits = {} THEN 0 ELSE CHOOSE i \in hits : \A j \in hits : i <= j

\* a variant that takes the last bid with the name
BidToCancel_Last(bids, name) ==
    LET hits == {i \in 1..Len(bids) : bids[i].name.some /\ bids[i].name.v = name}
    IN  IF hits = {} THEN 0 ELSE CHOOSE i \in hits : \A j \in hits : i >= j

\* next((b for b in bids if b.name == name), None): its index, 0 for None
BidToCancel(bids, name) ==
    FirstIndex({i \in 1..Len(bids) : bids[i].name.some /\ bids[i].name.v = name})

valid_priorities == {S_critical, S_high, S_standard, S_low}

PrepareLimitPriceCents(priority, utility_threshold_price) ==
    IF utility_threshold_price.some
    THEN [err |-> "", v |-> FloatTimes100ToInt(utility_threshold_price.v)]
    ELSE LET price == PriceMapGet(Lower(priority))
         IN  IF ~price.some THEN [err |-> "ValueError", v |-> 0]
             ELSE [err |-> "", v |-> FloatTimes100ToInt(price.v)]

\* prepare_limit_price_cents called on its own
S_Standard == <<"S", "t", "a", "n", "d", "a", "r", "d">>
S_HIGH == <<"H", "I", "G", "H">>
S_urgent == <<"u", "r", "g", "e", "n", "t">>

PriorityPalette ==
    valid_priorities \cup {S_Standard, S_HIGH, S_urgent, <<>>}

\* thresholds in thousandths of a dollar, all of them whole cents
ThresholdPalette ==
    {NonePrice} \cup
    {Some(m) : m \in {0, 10, 290, 570, 1150, 1230, 2000, 4240, 19990, -10000}}

NoPrice == [err |-> "", v |-> 0]

PriceIdle ==
    /\ pPriority = <<>>
    /\ pThreshold = NonePrice
    /\ pResult = NoPrice
    /\ pPc = "idle"

PriceInit ==
    /\ pPriority \in PriorityPalette
    /\ pThreshold \in ThresholdPalette
    /\ pResult = NoPrice
    /\ pPc = "ready"

CallPrepareLimitPriceCents ==
    /\ pPc = "ready"
    /\ pResult' = PrepareLimitPriceCents(pPriority, pThreshold)
    /\ pPc' = "done"
    /\ UNCHANGED <<pPriority, pThreshold>>
    /\ UNCHANGED <<finderVars, taskVars, authVars, itypeVars, cliVars, statusVars, regionVars, excVars, spinnerVars, portVars, instanceVars, tableVars, bidVars, displayVars>>

NextPrice == CallPrepareLimitPriceCents

NoExtract == [err |-> "", task_name |-> "", limit_price_cents |-> 0]

ExtractAndPrepareData(config) ==
    LET task_management == config.task_management
        priority == IF TruthyStr(task_management.v.priority)
                    THEN task_management.v.priority.v ELSE S_standard
        limit == PrepareLimitPriceCents(priority,
                                        task_management.v.utility_threshold_price)
    IN  IF config.name = "" THEN [NoExtract EXCEPT !.err = "ValueError"]
        ELSE IF ~task_management.some THEN [NoExtract EXCEPT !.err = "ValueError"]
        ELSE IF priority \notin valid_priorities
             THEN [NoExtract EXCEPT !.err = "ValueError"]
        ELSE IF limit.err # "" THEN [NoExtract EXCEPT !.err = limit.err]
        ELSE [err |-> "", task_name |-> config.name, limit_price_cents |-> limit.v]

\* _build_full_startup_script and the bootstrap wrapping: the segments of
\* the full script, delivered inside one bootstrap segment
BuildStartupScripts(config) ==
    IF config.ports = "mismatched"
    THEN [err |-> "ValueError", v |-> <<>>]
    ELSE [err |-> "",
          v |-> <<"bootstrap">>
                \o (IF config.ports = "ok" THEN <<"ports">> ELSE <<>>)
                \o (IF config.persistent_storage.some THEN <<"persistent">> ELSE <<>>)]

SelectProjectId(projects, project_name) ==
    LET hit == FirstIndex({i \in 1..Len(projects) :
                              projects[i].name = project_name /\ projects[i].id # ""})
    IN  IF hit = 0 THEN [err |-> "Exception", v |-> ""]
        ELSE [err |-> "", v |-> projects[hit].id]

SelectSshKeyId(ssh_keys, ssh_key_name) ==
    LET hit == FirstIndex({i \in 1..Len(ssh_keys) :
                              /\ ssh_keys[i].name.some
                              /\ ssh_keys[i].name.v = ssh_key_name
                              /\ ssh_keys[i].id # ""})
    IN  IF hit = 0 THEN [err |-> "Exception", v |-> ""]
        ELSE [err |-> "", v |-> ssh_keys[hit].id]

NoAuth == [err |-> "", user_id |-> "", project_id |-> "", ssh_key_id |-> "",
           calls |-> <<>>, user |-> NotAskedId, projects |-> NotAskedList,
           ssh_keys |-> NotAskedList]

\* a variant that asks for the projects before the user
AuthenticateAndGetUserData_ProjectsFirst(userR, projectsR, keysR) ==
    LET c1 == <<Call("get_projects", "")>>
        c2 == Append(c1, Call("get_user", ""))
        project == SelectProjectId(projectsR.v, foundry_project_name)
        c3 == Append(c2, Call("get_ssh_keys", project.v))
        key == SelectSshKeyId(keysR.v, foundry_ssh_key_name)
        a1 == [NoAuth EXCEPT !.calls = c1, !.projects = projectsR]
        a2 == [a1 EXCEPT !.calls = c2, !.user = userR, !.user_id = userR.v]
        a3 == [a2 EXCEPT !.calls = c3, !.ssh_keys = keysR, !.project_id = project.v]
    IN  IF projectsR.st # "ok" THEN [a1 EXCEPT !.err = "APIError"]
        ELSE IF project.err # "" THEN [a1 EXCEPT !.err = project.err]
        ELSE IF userR.st # "ok" THEN [a2 EXCEPT !.err = "AuthenticationError"]
        ELSE IF userR.v = "" THEN [a2 EXCEPT !.err = "ValueError"]
        ELSE IF keysR.st # "ok" THEN [a3 EXCEPT !.err = "APIError"]
        ELSE IF key.err # "" THEN [a3 EXCEPT !.err = key.err]
        ELSE [a3 EXCEPT !.ssh_key_id = key.v]

\* _authenticate_and_get_user_data against the answers the platform gives
AuthenticateAndGetUserData(userR, projectsR, keysR) ==
    LET c1 == <<Call("get_user", "")>>
        c2 == Append(c1, Call("get_projects", ""))
        project == SelectProjectId(projectsR.v, foundry_project_name)
        c3 == Append(c2, Call("get_ssh_keys", project.v))
        key == SelectSshKeyId(keysR.v, foundry_ssh_key_name)
        a1 == [NoAuth EXCEPT !.calls = c1, !.user = userR]
        a2 == [a1 EXCEPT !.calls = c2, !.projects = projectsR, !.user_id = userR.v]
        a3 == [a2 EXCEPT !.calls = c3, !.ssh_keys = keysR, !.project_id = project.v]
    IN  IF userR.st # "ok" THEN [a1 EXCEPT !.err = "AuthenticationError"]
        ELSE IF userR.v = "" THEN [a1 EXCEPT !.err = "ValueError"]
        ELSE IF projectsR.st # "ok" THEN [a2 EXCEPT !.err = "APIError"]
        ELSE IF project.err # "" THEN [a2 EXCEPT !.err = project.err]
        ELSE IF keysR.st # "ok" THEN [a3 EXCEPT !.err = "APIError"]
        ELSE IF key.err # "" THEN [a3 EXCEPT !.err = key.err]
        ELSE [a3 EXCEPT !.ssh_key_id = key.v]

----------------------------------------------------------------------------
(* StorageManager.handle_persistent_storage (managers/storage_manager.py). *)

ClientDiskId == "client-uuid"       \* str(uuid.uuid4()), made up by the client

DiskAttachment(disk_id, volume_name, region_id) ==
    [disk_id |-> disk_id, volume_name |-> volume_name, region_id |-> region_id]

NoDisk == [some |-> FALSE, v |-> DiskAttachment("", <<>>, "")]

\* get_default_region_id: the id of the first region get_regions lists
DefaultRegionId == "r-default"

\* if not region_id: region_id = self.get_default_region_id()
RegionOrDefault(region_id) == IF region_id = "" THEN DefaultRegionId ELSE region_id

DefaultRegionCalls(region_id) ==
    IF region_id = "" THEN <<Call("get_regions", "")>> ELSE <<>>

\* a variant that prefers the region of the storage configuration
HandlePersistentStorage_ConfigRegion(project_id, persistent_storage, region_id, diskR) ==
    LET create_config == persistent_storage.create.v
        volume_name == <<create_config.volume_name.v, "-", "uuid-hex">>
        chosen == IF TruthyId(create_config.region_id)
                  THEN create_config.region_id.v ELSE RegionOrDefault(region_id)
        disk_attachment == DiskAttachment(ClientDiskId, volume_name, chosen)
        request == <<Call("create_disk", disk_attachment)>>
    IN  IF ~persistent_storage.create.some
        THEN [err |-> "", v |-> NoDisk, calls |-> <<>>]
        ELSE IF ~TruthyId(create_config.volume_name)
        THEN [err |-> "ValueError", v |-> NoDisk, calls |-> <<>>]
        ELSE IF ~(create_config.size.some /\ create_config.size.v # 0)
        THEN [err |-> "ValueError", v |-> NoDisk, calls |-> <<>>]
        ELSE IF create_config.size.v <= 0
        THEN [err |-> "ValidationError", v |-> NoDisk, calls |-> <<>>]
        ELSE IF diskR.st = "raise"
        THEN [err |-> "APIError", v |-> NoDisk, calls |-> request]
        ELSE IF diskR.st # "ok"
        THEN [err |-> "Exception", v |-> NoDisk, calls |-> request]
        ELSE [err |-> "",
              v |-> Some([disk_attachment EXCEPT !.disk_id = diskR.v]),
              calls |-> request]

\* a variant that keeps the id the client made up
HandlePersistentStorage_KeepsClientId(project_id, persistent_storage, region_id, diskR) ==
    LET create_config == persistent_storage.create.v
        volume_name == <<create_config.volume_name.v, "-", "uuid-hex">>
        disk_attachment == DiskAttachment(ClientDiskId, volume_name,
                                          RegionOrDefault(region_id))
        request == DefaultRegionCalls(region_id)
                       \o <<Call("create_disk", disk_attachment)>>
    IN  IF ~persistent_storage.create.some
        THEN [err |-> "", v |-> NoDisk, calls |-> <<>>]
        ELSE IF ~TruthyId(create_config.volume_name)
        THEN [err |-> "ValueError", v |-> NoDisk, calls |-> <<>>]
        ELSE IF ~(create_config.size.some /\ create_config.size.v > 0)
        THEN [err |-> "ValueError", v |-> NoDisk, calls |-> <<>>]
        ELSE IF diskR.st # "ok"
        THEN [err |-> "APIError", v |-> NoDisk, calls |-> request]
        ELSE [err |-> "", v |-> Some(disk_attachment), calls |-> request]

\* handle_persistent_storage
HandlePersistentStorage(project_id, persistent_storage, region_id, diskR) ==
    LET create_config == persistent_storage.create.v
        \* the configured name with the generated suffix
        volume_name == <<create_config.volume_name.v, "-", "uuid-hex">>
        disk_attachment == DiskAttachment(ClientDiskId, volume_name,
                                          RegionOrDefault(region_id))
        request == DefaultRegionCalls(region_id)
                       \o <<Call("create_disk", disk_attachment)>>
    IN  IF ~persistent_storage.create.some
        THEN [err |-> "", v |-> NoDisk, calls |-> <<>>]
        ELSE IF ~TruthyId(create_config.volume_name)
        THEN [err |-> "ValueError", v |-> NoDisk, calls |-> <<>>]
        ELSE IF ~(create_config.size.some /\ create_config.size.v # 0)
        THEN [err |-> "ValueError", v |-> NoDisk, calls |-> <<>>]
        ELSE IF create_config.size.v <= 0
        THEN [err |-> "ValidationError", v |-> NoDisk, calls |-> <<>>]
        ELSE IF diskR.st = "raise"
        THEN [err |-> "APIError", v |-> NoDisk, calls |-> request]
        ELSE IF diskR.st # "ok"
        THEN [err |-> "Exception", v |-> NoDisk, calls |-> request]
        ELSE [err |-> "",
              v |-> Some([disk_attachment EXCEPT !.disk_id = diskR.v]),
              calls |-> request]

----------------------------------------------------------------------------
(* BidManager (managers/bid_manager.py) and BidPayload                     *)
(* (models/bid_payload.py).                                                *)

BidPayload(cluster_id, instance_quantity, instance_type_id, limit_price_cents, order_name, project_id, ssh_key_ids, startup_script, user_id, disk_attachments) ==
    [cluster_id |-> cluster_id, instance_quantity |-> instance_quantity,
     instance_type_id |-> instance_type_id, limit_price_cents |-> limit_price_cents,
     order_name |-> order_name, project_id |-> project_id,
     ssh_key_ids |-> ssh_key_ids, startup_script |-> startup_script,
     user_id |-> user_id, disk_attachments |-> disk_attachments]

\* the field constraints of BidPayload
BidPayloadValid(p) ==
    /\ p.cluster_id # ""
    /\ p.instance_quantity > 0
    /\ TruthyId(p.instance_type_id)
    /\ p.limit_price_cents > 0
    /\ p.order_name # ""
    /\ p.project_id # ""
    /\ Len(p.ssh_key_ids) >= 1
    /\ p.user_id # ""

\* BidDiskAttachment.from_disk_attachment
BidDiskAttachment(disk_attachment) ==
    [disk_id |-> disk_attachment.disk_id, volume_name |-> disk_attachment.volume_name]

----------------------------------------------------------------------------
(* FlowTaskManager._prepare_and_submit_bid.                                *)

\* a variant that takes the last matching auction
SelectAuction_Last(matching_auctions) == matching_auctions[Len(matching_auctions)]

\* the auction the bid goes to
SelectAuction(matching_auctions) == matching_auctions[1]

\* a variant without the default of 1
InstanceQuantity_NoDefault(resources_specification) ==
    IF resources_specification.num_instances.some
    THEN resources_specification.num_instances.v ELSE 0

\* resources_specification.num_instances or 1
InstanceQuantity(resources_specification) ==
    IF resources_specification.num_instances.some
           /\ resources_specification.num_instances.v # 0
    THEN resources_specification.num_instances.v ELSE 1

PrepareAndSubmitBid(config, matching_auctions, resources_specification, limit_price_cents, task_name, project_id, ssh_key_id, startup_script, user_id, regionR, diskR, bidR) ==
    LET selected_auction == SelectAuction(matching_auctions)
        lookup == ~TruthyId(selected_auction.region_id)
                      /\ TruthyId(selected_auction.region)
        lookupCalls == IF lookup
                       THEN <<Call("get_regions", selected_auction.region.v)>>
                       ELSE <<>>
        region_id == IF lookup THEN regionR.v
                     ELSE IF TruthyId(selected_auction.region_id)
                          THEN selected_auction.region_id.v ELSE ""
        persistent_storage == config.persistent_storage
        storage == IF persistent_storage.some
                   THEN HandlePersistentStorage(project_id, persistent_storage.v,
                                                region_id, diskR)
                   ELSE [err |-> "", v |-> NoDisk, calls |-> <<>>]
        bid_disk_attachments == IF storage.v.some
                                THEN <<BidDiskAttachment(storage.v.v)>> ELSE <<>>
        instance_quantity == InstanceQuantity(resources_specification)
        bid_payload == BidPayload(selected_auction.cluster_id, instance_quantity,
                                  selected_auction.instance_type_id,
                                  limit_price_cents, task_name, project_id,
                                  <<ssh_key_id>>, startup_script, user_id,
                                  bid_disk_attachments)
        storageCalls == lookupCalls \o storage.calls
        submitCalls == Append(storageCalls, Call("place_bid", bid_payload))
        asked(yes, r) == IF yes THEN r ELSE NotAskedId
        \* the outcome, with the answers consumed up to it
        early(err) ==
            [err |-> err, calls |-> lookupCalls, disk |-> NoDisk,
             region |-> asked(lookup, regionR), created |-> NotAskedId,
             placed |-> NotAskedId]
        late(err, calls, placed) ==
            [err |-> err, calls |-> calls, disk |-> storage.v,
             region |-> asked(lookup, regionR),
             created |-> asked(storage.calls # <<>>, diskR),
             placed |-> placed]
    IN  IF lookup /\ regionR.st = "raise" THEN early("APIError")
        ELSE IF lookup /\ regionR.st # "ok" THEN early("ValueError")
        ELSE IF region_id = "" THEN early("ValueError")
        ELSE IF storage.err # "" THEN late(storage.err, storageCalls, NotAskedId)
        ELSE IF ~BidPayloadValid(bid_payload)
             THEN late("ValidationError", storageCalls, NotAskedId)
        ELSE IF bidR.st # "ok" THEN late("BidSubmissionError", submitCalls, bidR)
        ELSE late("", submitCalls, bidR)

----------------------------------------------------------------------------
(* The task manager's methods as steps.                                    *)

BidPalette ==
    { Bid("b1", Some("t1"), Some("active")),
      Bid("b2", Some("t1"), NoneId),
      Bid("b3", Some("other"), Some("active")),
      Bid("b4", NoneId, Some("active")) }

BidsResponses == { RaisesList } \cup { Returns(l) : l \in SeqsUpTo(BidPalette, MaxBids) }

NoLocals ==
    [task_name |-> "", limit_price_cents |-> 0, startup_script |-> <<>>,
     user_id |-> "", project_id |-> "", ssh_key_id |-> "",
     matching_auctions |-> <<>>, disk |-> NoDisk]

NothingSeen ==
    [user |-> NotAskedId, projects |-> NotAskedList, ssh_keys |-> NotAskedList,
     auctions |-> NotAskedList, bids |-> NotAskedList,
     region |-> NotAskedId, created |-> NotAskedId, placed |-> NotAskedId]

TaskIdle ==
    /\ tOp = "none"
    /\ tConfig = NoConfigParser
    /\ tName = ""
    /\ tPc = "idle"
    /\ tErr = ""
    /\ tCalls = <<>>
    /\ tLoc = NoLocals
    /\ tSeen = NothingSeen

TaskInit ==
    /\ tOp \in {"run", "cancel"}
    /\ tConfig \in IF tOp = "run"
                   THEN {NoConfigParser} \cup {Some(c) : c \in ConfigPalette}
                   ELSE {NoConfigParser}
    /\ tName \in IF tOp = "cancel" THEN {"t1", "zz"} ELSE {""}
    /\ tPc = "start"
    /\ tErr = ""
    /\ tCalls = <<>>
    /\ tLoc = NoLocals
    /\ tSeen = NothingSeen

\* run(): the configuration is extracted and the startup scripts are built
RunExtractAndBuild ==
    /\ tOp = "run" /\ tPc = "start"
    /\ LET data == ExtractAndPrepareData(tConfig.v)
           scripts == BuildStartupScripts(tConfig.v)
           err == IF ~tConfig.some THEN "ValueError"
                  ELSE IF data.err # "" THEN data.err
                  ELSE scripts.err
       IN  IF err # ""
           THEN /\ tPc' = "failed"
                /\ tErr' = err
                /\ UNCHANGED tLoc
           ELSE /\ tPc' = "auth"
                /\ tErr' = ""
                /\ tLoc' = [tLoc EXCEPT !.task_name = data.task_name,
                                        !.limit_price_cents = data.limit_price_cents,
                                        !.startup_script = scripts.v]
    /\ UNCHANGED <<tOp, tConfig, tName, tCalls, tSeen>>
    /\ UNCHANGED <<finderVars, authVars, itypeVars, cliVars, priceVars, statusVars, regionVars, excVars, spinnerVars, portVars, instanceVars, tableVars, bidVars, displayVars>>

\* run(): _authenticate_and_get_user_data
RunAuthenticate ==
    /\ tOp = "run" /\ tPc = "auth"
    /\ \E userR \in UserResponses, projectsR \in ProjectsResponses,
          keysR \in SshKeysResponses :
          LET auth == AuthenticateAndGetUserData(userR, projectsR, keysR)
          IN  /\ tCalls' = tCalls \o auth.calls
              /\ tSeen' = [tSeen EXCEPT !.user = auth.user,
                                        !.projects = auth.projects,
                                        !.ssh_keys = auth.ssh_keys]
              /\ tErr' = auth.err
              /\ tPc' = IF auth.err # "" THEN "failed" ELSE "find"
              /\ tLoc' = IF auth.err # "" THEN tLoc
                         ELSE [tLoc EXCEPT !.user_id = auth.user_id,
                                           !.project_id = auth.project_id,
                                           !.ssh_key_id = auth.ssh_key_id]
    /\ UNCHANGED <<tOp, tConfig, tName>>
    /\ UNCHANGED <<finderVars, authVars, itypeVars, cliVars, priceVars, statusVars, regionVars, excVars, spinnerVars, portVars, instanceVars, tableVars, bidVars, displayVars>>

\* run(): _find_matching_auctions
RunFindMatchingAuctions ==
    /\ tOp = "run" /\ tPc = "find"
    /\ \E auctionsR \in AuctionsResponses :
          LET matching_auctions ==
                  FindMatchingAuctions(auctionsR.v,
                                       tConfig.v.resources_specification)
              err == IF auctionsR.st # "ok" THEN "APIError"
                     ELSE IF matching_auctions = <<>> THEN "NoMatchingAuctionsError"
                     ELSE ""
          IN  /\ tCalls' = Append(tCalls, Call("get_auctions", tLoc.project_id))
              /\ tSeen' = [tSeen EXCEPT !.auctions = auctionsR]
              /\ tErr' = err
              /\ tPc' = IF err # "" THEN "failed" ELSE "submit"
              /\ tLoc' = IF err # "" THEN tLoc
                         ELSE [tLoc EXCEPT !.matching_auctions = matching_auctions]
    /\ UNCHANGED <<tOp, tConfig, tName>>
    /\ UNCHANGED <<finderVars, authVars, itypeVars, cliVars, priceVars, statusVars, regionVars, excVars, spinnerVars, portVars, instanceVars, tableVars, bidVars, displayVars>>

\* run(): _prepare_and_submit_bid and the closing notification
RunPrepareAndSubmitBid ==
    /\ tOp = "run" /\ tPc = "submit"
    /\ \E regionR \in RegionLookupResponses, diskR \in CreateDiskResponses,
          bidR \in PlaceBidResponses :
          LET out == PrepareAndSubmitBid(tConfig.v, tLoc.matching_auctions,
                         tConfig.v.resources_specification,
                         tLoc.limit_price_cents, tLoc.task_name, tLoc.project_id,
                         tLoc.ssh_key_id, tLoc.startup_script, tLoc.user_id,
                         regionR, diskR, bidR)
          IN  /\ tCalls' = tCalls \o out.calls
              /\ tErr' = out.err
              /\ tPc' = IF out.err # "" THEN "failed" ELSE "done"
              /\ tLoc' = [tLoc EXCEPT !.disk = out.disk]
              /\ tSeen' = [tSeen EXCEPT !.region = out.region,
                                        !.created = out.created,
                                        !.placed = out.placed]
    /\ UNCHANGED <<tOp, tConfig, tName>>
    /\ UNCHANGED <<finderVars, authVars, itypeVars, cliVars, priceVars, statusVars, regionVars, excVars, spinnerVars, portVars, instanceVars, tableVars, bidVars, displayVars>>

\* cancel_bid(name)
CancelBid ==
    /\ tOp = "cancel" /\ tPc = "start"
    /\ \E userR \in UserResponses, projectsR \in ProjectsResponses,
          keysR \in SshKeysResponses, bidsR \in BidsResponses,
          cancelR \in CancelResponses :
          LET auth == AuthenticateAndGetUserData(userR, projectsR, keysR)
              bids == bidsR.v
              hit == BidToCancel(bids, tName)
              listCalls == Append(auth.calls, Call("get_bids", auth.project_id))
              err == IF auth.err # "" THEN auth.err
                     ELSE IF bidsR.st # "ok" THEN "APIError"
                     ELSE IF hit = 0 THEN "Exception"
                     ELSE IF cancelR.st # "ok" THEN "APIError"
                     ELSE ""
          IN  /\ tCalls' = IF auth.err # "" THEN auth.calls
                           ELSE IF bidsR.st # "ok" \/ hit = 0 THEN listCalls
                           ELSE Append(listCalls, Call("cancel_bid", bids[hit].id))
              /\ tSeen' = [tSeen EXCEPT !.user = auth.user,
                                        !.projects = auth.projects,
                                        !.ssh_keys = auth.ssh_keys,
                                        !.bids = IF auth.err # "" THEN NotAskedList
                                                 ELSE bidsR]
              /\ tErr' = err
              /\ tPc' = IF err # "" THEN "failed" ELSE "done"
              /\ tLoc' = [tLoc EXCEPT !.user_id = auth.user_id,
                                      !.project_id = auth.project_id]
    /\ UNCHANGED <<tOp, tConfig, tName>>
    /\ UNCHANGED <<finderVars, authVars, itypeVars, cliVars, priceVars, statusVars, regionVars, excVars, spinnerVars, portVars, instanceVars, tableVars, bidVars, displayVars>>

----------------------------------------------------------------------------
(* FlowTaskManager.check_status and _validate_bids.                        *)

StatusBidPalette ==
    { Bid("b1", Some("a"), Some("active")),
      Bid("b2", NoneId, Some("active")),
      Bid("b3", Some("b"), NoneId),
      Bid("b4", Some(""), Some("active")),
      Bid("b5", Some("c"), Some("")) }

StatusBidsResponses ==
    { RaisesList } \cup { Returns(l) : l \in SeqsUpTo(StatusBidPalette, MaxStatusBids) }

\* a variant that looks at the name only
ValidateBids_NameOnly(bids, show_all) ==
    IF show_all THEN bids
    ELSE SelectSeq(bids, LAMBDA bid : TruthyId(bid.name))

\* _validate_bids, on the list get_bids returns
ValidateBids(bids, show_all) ==
    IF show_all THEN bids
    ELSE SelectSeq(bids, LAMBDA bid : TruthyId(bid.name) /\ TruthyId(bid.status))

NothingShown == [some |-> FALSE, bids |-> <<>>]

StatusIdle ==
    /\ sShowAll = FALSE
    /\ sBids = NotAskedList
    /\ sShown = NothingShown
    /\ sErr = ""
    /\ sPc = "idle"

StatusInit ==
    /\ sShowAll \in BOOLEAN
    /\ sBids = NotAskedList
    /\ sShown = NothingShown
    /\ sErr = ""
    /\ sPc = "ready"

\* check_status(task_name, show_all): authentication, get_bids,
\* _validate_bids, get_instances, format_status
CheckStatus ==
    /\ sPc = "ready"
    /\ \E userR \in UserResponses, projectsR \in ProjectsResponses,
          keysR \in SshKeysResponses, bidsR \in StatusBidsResponses,
          instancesOk \in BOOLEAN :
          LET auth == AuthenticateAndGetUserData(userR, projectsR, keysR)
              bids_pydantic == ValidateBids(bidsR.v, sShowAll)
              err == IF auth.err # "" THEN auth.err
                     ELSE IF bidsR.st # "ok" THEN "APIError"
                     ELSE IF ~instancesOk THEN "APIError"
                     ELSE ""
          IN  /\ sBids' = IF auth.err # "" THEN NotAskedList ELSE bidsR
              /\ sShown' = IF err # "" THEN NothingShown
                            ELSE [some |-> TRUE, bids |-> bids_pydantic]
              /\ sErr' = err
              /\ sPc' = IF err # "" THEN "failed" ELSE "done"
    /\ UNCHANGED sShowAll
    /\ UNCHANGED <<finderVars, taskVars, authVars, itypeVars, cliVars, priceVars, regionVars, excVars, spinnerVars, portVars, instanceVars, tableVars, bidVars, displayVars>>

NextStatus == CheckStatus

----------------------------------------------------------------------------
(* StorageClient._resolve_region_id.                                       *)

RegionResponse(region_id, name) == [region_id |-> region_id, name |-> name]

RegionPalette ==
    { RegionResponse("r1", "east"),
      RegionResponse("r2", "east"),
      RegionResponse("east", "west"),
      RegionResponse("r3", "r1"),
      RegionResponse("r4", "west") }

RegionStrings == { "east", "r1", "west", "north" }

RegionsResponses ==
    { RaisesList } \cup { Returns(l) : l \in SeqsUpTo(RegionPalette, MaxRegions) }

\* a variant with one pass that accepts either field
ResolveRegionId_SinglePass(all_regions, region_str) ==
    LET hits == { i \in 1..Len(all_regions) :
                    \/ all_regions[i].region_id = region_str
                    \/ all_regions[i].name = region_str }
    IN  IF hits # {} THEN Returns(all_regions[FirstIndex(hits)].region_id)
        ELSE [st |-> "raise", v |-> "ValueError"]

\* the two loops of _resolve_region_id over the fetched regions
ResolveRegionId(all_regions, region_str) ==
    LET byId == { i \in 1..Len(all_regions) : all_regions[i].region_id = region_str }
        byName == { i \in 1..Len(all_regions) : all_regions[i].name = region_str }
    IN  IF byId # {} THEN Returns(all_regions[FirstIndex(byId)].region_id)
        ELSE IF byName # {} THEN Returns(all_regions[FirstIndex(byName)].region_id)
        ELSE [st |-> "raise", v |-> "ValueError"]

NotResolved == [st |-> "none", v |-> ""]

RegionIdle ==
    /\ rgRegions = NotAskedList
    /\ rgStr = ""
    /\ rgResult = NotResolved
    /\ rgPc = "idle"

RegionInit ==
    /\ rgRegions = NotAskedList
    /\ rgStr \in RegionStrings
    /\ rgResult = NotResolved
    /\ rgPc = "ready"

\* _resolve_region_id(region_str): get_regions, then the two passes
ResolveRegion ==
    /\ rgPc = "ready"
    /\ \E regionsR \in RegionsResponses :
          /\ rgRegions' = regionsR
          /\ rgResult' = IF regionsR.st # "ok"
                          THEN [st |-> "raise", v |-> "InvalidResponseError"]
                          ELSE ResolveRegionId(regionsR.v, rgStr)
    /\ rgPc' = "done"
    /\ UNCHANGED rgStr
    /\ UNCHANGED <<finderVars, taskVars, authVars, itypeVars, cliVars, priceVars, statusVars, excVars, spinnerVars, portVars, instanceVars, tableVars, bidVars, displayVars>>

NextRegion == ResolveRegion

----------------------------------------------------------------------------
(* Exception classes: the package flow.utils.exceptions, which is what     *)
(* "from flow.utils.exceptions import ..." binds, and the three classes    *)
(* managers/task_manager.py defines for itself.                            *)

ExceptionClasses ==
    { "Exception",
      "exceptions.APIError", "exceptions.InvalidResponseError",
      "exceptions.NoMatchingAuctionsError", "exceptions.BidSubmissionError",
      "exceptions.AuthenticationError", "exceptions.InvalidCredentialsError",
      "exceptions.NetworkError", "exceptions.TimeoutError",
      "task_manager.AuthenticationError",
      "task_manager.NoMatchingAuctionsError",
      "task_manager.BidSubmissionError" }

\* the base class each class statement names
BaseClass(cls) ==
    CASE cls = "exceptions.APIError" -> "Exception"
      [] cls = "exceptions.InvalidResponseError" -> "exceptions.APIError"
      [] cls = "exceptions.NoMatchingAuctionsError" -> "exceptions.APIError"
      [] cls = "exceptions.BidSubmissionError" -> "exceptions.APIError"
      [] cls = "exceptions.AuthenticationError" -> "Exception"
      [] cls = "exceptions.InvalidCredentialsError" -> "exceptions.AuthenticationError"
      [] cls = "exceptions.NetworkError" -> "Exception"
      [] cls = "exceptions.TimeoutError" -> "exceptions.NetworkError"
      [] cls = "task_manager.AuthenticationError" -> "Exception"
      [] cls = "task_manager.NoMatchingAuctionsError" -> "Exception"
      [] cls = "task_manager.BidSubmissionError" -> "Exception"
      [] OTHER -> "BaseException"

RECURSIVE IsSubclass(_, _)
\* issubclass(cls, parent), which is what an except clause tests
IsSubclass(cls, parent) ==
    IF cls = parent THEN TRUE
    ELSE IF cls = "Exception" THEN FALSE
    ELSE IsSubclass(BaseClass(cls), parent)

RaiseSite(module, line, cls) == [module |-> module, line |-> line, cls |-> cls]

\* the raise statements of the submit workflow
WorkflowRaiseSites ==
    { RaiseSite("managers/task_manager.py", 287, "task_manager.AuthenticationError"),
      RaiseSite("managers/task_manager.py", 334, "task_manager.NoMatchingAuctionsError"),
      RaiseSite("managers/task_manager.py", 431, "task_manager.BidSubmissionError") }

\* the raise statements of the platform clients for transport failures
ClientRaiseSites ==
    { RaiseSite("clients/authenticator.py", 142, "exceptions.TimeoutError"),
      RaiseSite("clients/authenticator.py", 145, "exceptions.NetworkError"),
      RaiseSite("clients/authenticator.py", 150, "exceptions.AuthenticationError"),
      RaiseSite("clients/fcp_client.py", 186, "exceptions.TimeoutError"),
      RaiseSite("clients/fcp_client.py", 191, "exceptions.NetworkError"),
      RaiseSite("clients/storage_client.py", 149, "exceptions.TimeoutError"),
      RaiseSite("clients/storage_client.py", 155, "exceptions.NetworkError") }

RaiseSites == WorkflowRaiseSites \cup ClientRaiseSites

NoSite == RaiseSite("", 0, "")

ExcIdle ==
    /\ xSite = NoSite
    /\ xHandler = ""
    /\ xRaised = ""
    /\ xCaught = FALSE
    /\ xPc = "idle"

ExcInit ==
    /\ xSite \in RaiseSites
    /\ xHandler \in ExceptionClasses
    /\ xRaised = ""
    /\ xCaught = FALSE
    /\ xPc = "ready"

\* try: <the statement at xSite raises> except xHandler: ...
RaiseInsideTry ==
    /\ xPc = "ready"
    /\ xRaised' = xSite.cls
    /\ xCaught' = IsSubclass(xSite.cls, xHandler)
    /\ xPc' = "done"
    /\ UNCHANGED <<xSite, xHandler>>
    /\ UNCHANGED <<finderVars, taskVars, authVars, itypeVars, cliVars, priceVars, statusVars, regionVars, spinnerVars, portVars, instanceVars, tableVars, bidVars, displayVars>>

NextExc == RaiseInsideTry

----------------------------------------------------------------------------
(* SpinnerLogger and SpinnerLogHandler.                                    *)

\* logging.INFO, ERROR, CRITICAL: levels of records that pass a handler
\* created with level=logging.INFO
LogLevels == { 20, 40, 50 }

\* a call on the wrapped logger
LogCall(level, kind, msg) == [level |-> level, kind |-> kind, msg |-> msg]

SpinnerMessages == { "Initializing foundry client...", "Checking status..." }

\* SpinnerLogger.__init__, with nothing on the terminal
NewSpinnerLogger ==
    [ spinner_active |-> FALSE,
      progress |-> FALSE,
      sub_steps_enabled |-> FALSE,
      sub_steps |-> <<>>,
      log_buffer |-> <<>>,
      description |-> "",
      console |-> <<>>,
      starts |-> 0,
      stops |-> 0,
      calls |-> <<>> ]

\* update_sub_step
UpdateSubStep(w, message) ==
    [w EXCEPT
        !.sub_steps = IF w.sub_steps_enabled THEN Append(@, message) ELSE @,
        !.console = IF w.progress THEN Append(@, message) ELSE @]

RECURSIVE FlushLoop(_, _)
\* the for loop of _flush_buffer_to_spinner over the remaining messages
FlushLoop(w, rest) ==
    IF rest = <<>> THEN w
    ELSE FlushLoop(UpdateSubStep(w, Head(rest)), Tail(rest))

\* a variant that leaves the buffer as it was
FlushBufferToSpinner_KeepsBuffer(w) ==
    FlushLoop(w, w.log_buffer)

\* _flush_buffer_to_spinner
FlushBufferToSpinner(w) ==
    [FlushLoop(w, w.log_buffer) EXCEPT !.log_buffer = <<>>]

\* update_text
UpdateText(w, message) ==
    [w EXCEPT
        !.description = IF w.spinner_active /\ w.progress THEN message ELSE @,
        !.calls = Append(@, LogCall(20, "text", message))]

\* the level the if/elif chain of handle_external_log logs at
RelogLevel(level) ==
    CASE level = 40 -> 40
      [] level = 30 -> 30
      [] level = 10 -> 10
      [] OTHER -> 20

\* handle_external_log
HandleExternalLog(w, message, level) ==
    LET shown == IF w.spinner_active /\ w.progress
                 THEN UpdateSubStep(w, message)
                 ELSE [w EXCEPT !.log_buffer = Append(@, message)]
    IN  [shown EXCEPT !.calls = Append(@, LogCall(RelogLevel(level), "record", message))]

\* a variant that starts a spinner on every entry
SpinnerEnter_AlwaysStarts(w, message, enable_sub_steps) ==
    FlushBufferToSpinner(
        [w EXCEPT !.spinner_active = TRUE,
                  !.sub_steps_enabled = enable_sub_steps,
                  !.sub_steps = <<>>,
                  !.progress = TRUE,
                  !.starts = @ + 1,
                  !.description = message,
                  !.calls = Append(@, LogCall(20, "start", message))])

\* spinner(), up to its yield
SpinnerEnter(w, message, enable_sub_steps) ==
    IF w.spinner_active
    THEN UpdateText([w EXCEPT !.calls = Append(@, LogCall(10, "reuse", message))],
                    message)
    ELSE FlushBufferToSpinner(
             [w EXCEPT !.spinner_active = TRUE,
                       !.sub_steps_enabled = enable_sub_steps,
                       !.sub_steps = <<>>,
                       !.progress = TRUE,
                       !.starts = @ + 1,
                       !.description = message,
                       !.calls = Append(@, LogCall(20, "start", message))])

\* the sub-steps logged again at the end of a scope
PersistedSteps(w, message, persist_messages) ==
    IF persist_messages /\ w.sub_steps_enabled /\ w.sub_steps # <<>>
    THEN <<LogCall(20, "header", message)>>
         \o [i \in 1..Len(w.sub_steps) |-> LogCall(20, "step", w.sub_steps[i])]
    ELSE <<>>

\* a variant whose every exit stops the spinner
SpinnerExit_InnerStops(w, started, message, persist_messages) ==
    [w EXCEPT
        !.stops = @ + 1,
        !.calls = @ \o PersistedSteps(w, message, persist_messages)
                    \o <<LogCall(20, "end", message)>>,
        !.spinner_active = FALSE,
        !.sub_steps_enabled = FALSE,
        !.progress = FALSE]

\* a variant whose exit leaves the active flag set
SpinnerExit_StaysActive(w, started, message, persist_messages) ==
    IF ~started THEN w
    ELSE [w EXCEPT
            !.stops = @ + 1,
            !.calls = @ \o PersistedSteps(w, message, persist_messages)
                        \o <<LogCall(20, "end", message)>>,
            !.sub_steps_enabled = FALSE,
            !.progress = FALSE]

\* spinner(), from the yield on: nothing in the branch that reused the
\* spinner, the finally block in the branch that started it
SpinnerExit(w, started, message, persist_messages) ==
    IF ~started THEN w
    ELSE [w EXCEPT
            !.stops = @ + 1,
            !.calls = @ \o PersistedSteps(w, message, persist_messages)
                        \o <<LogCall(20, "end", message)>>,
            !.spinner_active = FALSE,
            !.sub_steps_enabled = FALSE,
            !.progress = FALSE]

Scope(started, message, persist_messages) ==
    [started |-> started, message |-> message, persist_messages |-> persist_messages]

NotLeft == [left |-> FALSE, started |-> FALSE, raised |-> FALSE, propagated |-> FALSE]

ScopesEntered(w) ==
    Cardinality({ i \in 1..Len(w.calls) : w.calls[i].kind \in { "start", "reuse" } })

SpinnerIdle ==
    /\ spW = NewSpinnerLogger
    /\ spScopes = <<>>
    /\ spRecords = <<>>
    /\ spExit = NotLeft
    /\ spHandlerLevel = 0

SpinnerInit ==
    /\ spW = NewSpinnerLogger
    /\ spScopes = <<>>
    /\ spRecords = <<>>
    /\ spExit = NotLeft
    /\ spHandlerLevel = 20

\* with spinner_logger.spinner(message, enable_sub_steps, persist_messages):
EnterSpinner ==
    /\ spHandlerLevel # 0
    /\ ScopesEntered(spW) < MaxScopes
    /\ \E message \in SpinnerMessages, enable_sub_steps \in BOOLEAN,
          persist_messages \in BOOLEAN :
          /\ spW' = SpinnerEnter(spW, message, enable_sub_steps)
          \* the branch that reuses the spinner never reads persist_messages
          /\ spScopes' = <<Scope(~spW.spinner_active, message,
                                  ~spW.spinner_active /\ persist_messages)>>
                          \o spScopes
    /\ UNCHANGED <<spRecords, spExit, spHandlerLevel>>
    /\ UNCHANGED <<finderVars, taskVars, authVars, itypeVars, cliVars, priceVars, statusVars, regionVars, excVars, portVars, instanceVars, tableVars, bidVars, displayVars>>

\* the body of the innermost scope ends, normally or with an exception
LeaveSpinner ==
    /\ spScopes # <<>>
    /\ \E raised \in BOOLEAN :
          LET scope == Head(spScopes)
          IN  /\ spW' = SpinnerExit(spW, scope.started, scope.message,
                                     scope.persist_messages)
              /\ spExit' = [left |-> TRUE, started |-> scope.started,
                             raised |-> raised, propagated |-> raised]
    /\ spScopes' = Tail(spScopes)
    /\ UNCHANGED <<spRecords, spHandlerLevel>>
    /\ UNCHANGED <<finderVars, taskVars, authVars, itypeVars, cliVars, priceVars, statusVars, regionVars, excVars, portVars, instanceVars, tableVars, bidVars, displayVars>>

\* SpinnerLogHandler.emit for a record the handler's level lets through;
\* the message of the n-th record is n
InterceptRecord ==
    /\ spHandlerLevel # 0
    /\ Len(spRecords) < MaxRecords
    /\ \E level \in LogLevels :
          /\ level >= spHandlerLevel
          /\ spW' = HandleExternalLog(spW, Len(spRecords) + 1, level)
          /\ spRecords' = Append(spRecords, level)
    /\ UNCHANGED <<spScopes, spExit, spHandlerLevel>>
    /\ UNCHANGED <<finderVars, taskVars, authVars, itypeVars, cliVars, priceVars, statusVars, regionVars, excVars, portVars, instanceVars, tableVars, bidVars, displayVars>>

NextSpinner == EnterSpinner \/ LeaveSpinner \/ InterceptRecord

NextTask ==
    \/ RunExtractAndBuild
    \/ RunAuthenticate
    \/ RunFindMatchingAuctions
    \/ RunPrepareAndSubmitBid
    \/ CancelBid

----------------------------------------------------------------------------
(* The HTTP sessions of the clients: a requests session whose adapter      *)
(* retries with Retry(total = max_retries, status_forcelist, allowed       *)
(* methods, raise_on_status = False).                                      *)

DefaultMaxRetries == 3

status_forcelist == {429, 500, 502, 503, 504}

AuthenticatorAllowedMethods == {"POST"}
FCPAllowedMethods == {"GET", "PUT", "POST", "DELETE"}

\* One attempt is answered with a status, or fails in the transport.
Attempt(kind, status, body, json) ==
    [kind |-> kind, status |-> status, body |-> body, json |-> json]

StatusAttempt(status, body, json) == Attempt("status", status, body, json)
TransportFailure(kind) == Attempt(kind, 0, <<>>, "")

\* a variant that grants one retry more than the budget
ShouldRetry_OneMore(method, allowed_methods, total, used, attempt) ==
    /\ used <= total
    /\ attempt.kind = "status"
    /\ method \in allowed_methods /\ attempt.status \in status_forcelist

\* Does the adapter send the request again after this answer?  `used` is
\* the number of retries already spent.
ShouldRetry(method, allowed_methods, total, used, attempt) ==
    /\ used < total
    /\ CASE attempt.kind = "status" ->
                method \in allowed_methods /\ attempt.status \in status_forcelist
         [] attempt.kind \in {"connection_error", "connect_timeout"} -> TRUE
         [] attempt.kind = "read_timeout" -> method \in allowed_methods
         [] OTHER -> FALSE

\* What session.request hands to the caller once no retry follows: the
\* last response, or the requests exception the failure surfaces as.
SessionOutcome(method, allowed_methods, attempt) ==
    CASE attempt.kind = "status" -> [exc |-> "", response |-> attempt]
      [] attempt.kind = "connect_timeout" -> [exc |-> "ConnectTimeout", response |-> attempt]
      [] attempt.kind = "connection_error" -> [exc |-> "ConnectionError", response |-> attempt]
      [] attempt.kind = "read_timeout" ->
            IF method \in allowed_methods
            THEN [exc |-> "ConnectionError", response |-> attempt]
            ELSE [exc |-> "ReadTimeout", response |-> attempt]
      [] OTHER -> [exc |-> "RequestException", response |-> attempt]

----------------------------------------------------------------------------
(* Authenticator (clients/authenticator.py).                               *)

LoginAttempts ==
    { StatusAttempt(200, <<>>, j) : j \in {"token", "no_token", "not_json"} }
    \cup { StatusAttempt(st, <<>>, "") : st \in {401, 403, 429, 500, 503} }
    \cup { TransportFailure(k) :
              k \in {"connection_error", "connect_timeout", "read_timeout",
                     "request_exception"} }

AuthRaise(err, status) == [kind |-> "raise", err |-> err, status |-> status]
NoAuthResult == [kind |-> "none", err |-> "", status |-> 0]

\* authenticate(), given what session.post came back with
Authenticate(outcome) ==
    LET response == outcome.response
    IN  IF outcome.exc \in {"ConnectTimeout", "ReadTimeout"}
        THEN AuthRaise("TimeoutError", 0)
        ELSE IF outcome.exc = "ConnectionError" THEN AuthRaise("NetworkError", 0)
        ELSE IF outcome.exc # "" THEN AuthRaise("AuthenticationError", 0)
        ELSE IF response.status >= 400
        THEN IF response.status = 401
             THEN AuthRaise("InvalidCredentialsError", response.status)
             ELSE AuthRaise("AuthenticationError", response.status)
        ELSE IF response.json = "not_json"
        THEN AuthRaise("AuthenticationError", response.status)
        ELSE IF response.json # "token"
        THEN AuthRaise("AuthenticationError", response.status)
        ELSE [kind |-> "token", err |-> "", status |-> response.status]

AuthIdle ==
    /\ aMaxRetries = 0
    /\ aAttempts = <<>>
    /\ aPc = "idle"
    /\ aResult = NoAuthResult

AuthInit ==
    /\ aMaxRetries \in 0..DefaultMaxRetries
    /\ aAttempts = <<>>
    /\ aPc = "sending"
    /\ aResult = NoAuthResult

\* one POST /login is sent and answered; the adapter will send it again
LoginRetried ==
    /\ aPc = "sending"
    /\ \E attempt \in LoginAttempts :
          /\ ShouldRetry("POST", AuthenticatorAllowedMethods, aMaxRetries,
                         Len(aAttempts), attempt)
          /\ aAttempts' = Append(aAttempts, attempt)
    /\ UNCHANGED <<aMaxRetries, aPc, aResult>>
    /\ UNCHANGED <<finderVars, taskVars, itypeVars, cliVars, priceVars, statusVars, regionVars, excVars, spinnerVars, portVars, instanceVars, tableVars, bidVars, displayVars>>

\* one POST /login is sent and answered, and authenticate() evaluates it
LoginFinished ==
    /\ aPc = "sending"
    /\ \E attempt \in LoginAttempts :
          /\ ~ShouldRetry("POST", AuthenticatorAllowedMethods, aMaxRetries,
                          Len(aAttempts), attempt)
          /\ aAttempts' = Append(aAttempts, attempt)
          /\ aResult' = Authenticate(SessionOutcome("POST",
                                         AuthenticatorAllowedMethods, attempt))
    /\ aPc' = "finished"
    /\ UNCHANGED aMaxRetries
    /\ UNCHANGED <<finderVars, taskVars, itypeVars, cliVars, priceVars, statusVars, regionVars, excVars, spinnerVars, portVars, instanceVars, tableVars, bidVars, displayVars>>

NextAuth == LoginRetried \/ LoginFinished

----------------------------------------------------------------------------
(* FCPClient._request and FoundryClient.get_instance_type.                 *)

S_404 == <<"4", "0", "4">>
S_NotFound == <<"N", "o", "t", " ", "F", "o", "u", "n", "d">>
S_ServerError == <<"S", "e", "r", "v", "e", "r", " ", "E", "r", "r", "o", "r">>
S_Trace == <<"t", "r", "a", "c", "e", " ", "1", "4", "0", "4", "7">>
S_ApiRequestFailed == <<"A", "P", "I", " ", "r", "e", "q", "u", "e", "s", "t", " ", "f", "a", "i", "l", "e", "d", " ", "[">>
S_BracketColon == <<"]", ":", " ">>
S_RequestFailed == <<"R", "e", "q", "u", "e", "s", "t", " ", "f", "a", "i", "l", "e", "d", ":", " ">>
S_TimedOut == <<"R", "e", "q", "u", "e", "s", "t", " ", "t", "i", "m", "e", "d", " ", "o", "u", "t">>
S_NetworkError == <<"N", "e", "t", "w", "o", "r", "k", " ", "e", "r", "r", "o", "r", " ", "o", "c", "c", "u", "r", "r", "e", "d">>
S_TokenInvalid == <<"A", "u", "t", "h", "e", "n", "t", "i", "c", "a", "t", "i", "o", "n", " ", "t", "o", "k", "e", "n", " ", "i", "s", " ", "i", "n", "v", "a", "l", "i", "d">>
S_Redirects == <<"E", "x", "c", "e", "e", "d", "e", "d", " ", "3", "0", " ", "r", "e", "d", "i", "r", "e", "c", "t", "s", ".">>
S_UnknownName == <<"[", "U", "n", "k", "n", "o", "w", "n", " ", "/", " ", "N", "o", "t", " ", "F", "o", "u", "n", "d", "]">>
S_a100_80gb == <<"a", "1", "0", "0", ".", "8", "0", "g", "b">>

DigitChar(d) ==
    CASE d = 0 -> "0" [] d = 1 -> "1" [] d = 2 -> "2" [] d = 3 -> "3"
      [] d = 4 -> "4" [] d = 5 -> "5" [] d = 6 -> "6" [] d = 7 -> "7"
      [] d = 8 -> "8" [] d = 9 -> "9"

\* str() of a three-digit status code
StatusStr(status_code) ==
    <<DigitChar(status_code \div 100), DigitChar((status_code \div 10) % 10),
      DigitChar(status_code % 10)>>

\* Python's `sub in s` on strings
StrContains(sub, str) ==
    \E p \in 0..(Len(str) - Len(sub)) : SubSeq(str, p + 1, p + Len(sub)) = sub

ErrorBodies == {S_NotFound, S_ServerError, S_Trace, <<>>}

InstanceTypeAttempts ==
    { StatusAttempt(200, <<>>, j) : j \in {"object_ok", "object_invalid", "not_json"} }
    \cup { StatusAttempt(st, b, "") : st \in {401, 403, 404, 500, 503}, b \in ErrorBodies }
    \cup { TransportFailure(k) :
              k \in {"connection_error", "connect_timeout", "read_timeout"} }
    \cup { Attempt("request_exception", 0, S_Redirects, "") }

Raised(err, message, status) ==
    [kind |-> "raise", err |-> err, message |-> message, status |-> status,
     id |-> "", name |-> <<>>]

\* _handle_http_error: the exception raised for an HTTP error response
HandleHttpError(response) ==
    LET status_code == response.status
        error_content_str == response.body
    IN  IF status_code = 401
        THEN Raised("AuthenticationError", S_TokenInvalid, status_code)
        ELSE Raised("APIError",
                    S_ApiRequestFailed \o StatusStr(status_code)
                        \o S_BracketColon \o error_content_str,
                    status_code)

\* _request: the response it returns, or the exception it raises
Request(outcome) ==
    LET response == outcome.response
    IN  IF outcome.exc \in {"ConnectTimeout", "ReadTimeout"}
        THEN Raised("TimeoutError", S_TimedOut, 0)
        ELSE IF outcome.exc = "ConnectionError"
        THEN Raised("NetworkError", S_NetworkError, 0)
        ELSE IF outcome.exc # ""
        THEN Raised("APIError", S_RequestFailed \o response.body, 0)
        ELSE IF response.status >= 400
        THEN HandleHttpError(response)
        ELSE [kind |-> "response", err |-> "", message |-> <<>>,
              status |-> response.status, id |-> "", name |-> <<>>]

IsAPIError(err) ==
    err \in {"APIError", "InvalidResponseError", "NoMatchingAuctionsError",
             "BidSubmissionError"}

\* the `not_found` test of get_instance_type; APIError carries no response
NotFound(raised) == StrContains(S_404, raised.message)

DetailedInstanceType(id, name, status) ==
    [kind |-> "value", err |-> "", message |-> <<>>, status |-> status,
     id |-> id, name |-> name]

NoInstanceType ==
    [kind |-> "none", err |-> "", message |-> <<>>, status |-> 0,
     id |-> "", name |-> <<>>]

GetInstanceType(instance_type_id, outcome) ==
    LET r == Request(outcome)
    IN  IF r.kind = "response"
        THEN IF outcome.response.json = "not_json"
             THEN Raised("JSONDecodeError", <<>>, r.status)
             ELSE IF outcome.response.json = "object_invalid"
             THEN Raised("ValidationError", <<>>, r.status)
             ELSE DetailedInstanceType(instance_type_id, S_a100_80gb, r.status)
        ELSE IF IsAPIError(r.err) /\ NotFound(r)
        THEN DetailedInstanceType(instance_type_id, S_UnknownName, r.status)
        ELSE r

InstanceTypeIds == {"it-1", "it-2"}

ITypeIdle ==
    /\ iId = ""
    /\ iAttempts = <<>>
    /\ iPc = "idle"
    /\ iResult = NoInstanceType

ITypeInit ==
    /\ iId \in InstanceTypeIds
    /\ iAttempts = <<>>
    /\ iPc = "sending"
    /\ iResult = NoInstanceType

\* one GET /instance_types/{id} is sent and answered; the adapter repeats it
InstanceTypeRetried ==
    /\ iPc = "sending"
    /\ \E attempt \in InstanceTypeAttempts :
          /\ ShouldRetry("GET", FCPAllowedMethods, DefaultMaxRetries,
                         Len(iAttempts), attempt)
          /\ iAttempts' = Append(iAttempts, [attempt EXCEPT !.body = <<>>])
    /\ UNCHANGED <<iId, iPc, iResult>>
    /\ UNCHANGED <<finderVars, taskVars, authVars, cliVars, priceVars, statusVars, regionVars, excVars, spinnerVars, portVars, instanceVars, tableVars, bidVars, displayVars>>

\* the last GET is answered, and get_instance_type evaluates it
InstanceTypeFinished ==
    /\ iPc = "sending"
    /\ \E attempt \in InstanceTypeAttempts :
          /\ ~ShouldRetry("GET", FCPAllowedMethods, DefaultMaxRetries,
                          Len(iAttempts), attempt)
          /\ iAttempts' = Append(iAttempts, attempt)
          /\ iResult' = GetInstanceType(iId,
                            SessionOutcome("GET", FCPAllowedMethods, attempt))
    /\ iPc' = "finished"
    /\ UNCHANGED iId
    /\ UNCHANGED <<finderVars, taskVars, authVars, cliVars, priceVars, statusVars, regionVars, excVars, spinnerVars, portVars, instanceVars, tableVars, bidVars, displayVars>>

NextIType == InstanceTypeRetried \/ InstanceTypeFinished

----------------------------------------------------------------------------
(* The command line: main(), run_submit_command, run_status_command,       *)
(* run_cancel_command (main.py).                                           *)

CommandChoices == {"submit", "status", "cancel"}

\* what the operator may type: a command word, with or without a config
\* file, with or without --task-name
ArgumentPalette ==
    [command : CommandChoices \cup {"deploy"},
     config_file : {"", "task.yaml"},
     task_name : {"", "train"}]

NoArgs == [command |-> "", config_file |-> "", task_name |-> ""]

\* a variant in which only submit checks its argument
MissingArgument_SubmitOnly(args) ==
    args.command = "submit" /\ args.config_file = ""

\* the check at the top of run_submit_command / run_cancel_command
MissingArgument(args) ==
    \/ args.command = "submit" /\ args.config_file = ""
    \/ args.command = "cancel" /\ args.task_name = ""

\* the requests the constructors of the platform client issue
LoginRequest == "POST /login"
UserLookupRequest == "GET /users/"

\* the requests of each command's workflow, in the order they are issued
CommandRequests(command) ==
    CASE command = "submit" ->
            <<"get_user", "get_projects", "get_ssh_keys", "get_auctions", "place_bid">>
      [] command = "status" ->
            <<"get_user", "get_projects", "get_ssh_keys", "get_bids", "get_instances">>
      [] command = "cancel" ->
            <<"get_user", "get_projects", "get_ssh_keys", "get_bids", "cancel_bid">>
      [] OTHER -> <<>>

\* a variant in which the interrupt falls into the general handler
ExitCode_InterruptAsError(raised) ==
    CASE raised = "none" -> 0
      [] raised = "KeyboardInterrupt" -> 1
      [] raised = "Exception" -> 1
      [] raised = "SystemExit(1)" -> 1
      [] raised = "SystemExit(2)" -> 2

\* The exit code of the process, from what left the try block of main():
\* KeyboardInterrupt and Exception are caught there, SystemExit is not and
\* carries its own code out of the interpreter.
ExitCode(raised) ==
    CASE raised = "none" -> 0
      [] raised = "KeyboardInterrupt" -> 130
      [] raised = "Exception" -> 1
      [] raised = "SystemExit(1)" -> 1
      [] raised = "SystemExit(2)" -> 2

\* what main() reports for it
ErrorLog(raised) ==
    CASE raised = "none" -> ""
      [] raised = "KeyboardInterrupt" -> "warning"
      [] raised = "Exception" -> "traceback"
      [] raised = "SystemExit(1)" -> "plain"
      [] raised = "SystemExit(2)" -> "usage"

Leave(raised) ==
    /\ cPc' = "exited"
    /\ cRaised' = raised
    /\ cLog' = ErrorLog(raised)
    /\ cExit' = ExitCode(raised)

CliIdle ==
    /\ cArgs = NoArgs
    /\ cPc = "idle"
    /\ cRequests = <<>>
    /\ cRaised = ""
    /\ cLog = ""
    /\ cExit = -1

CliInit ==
    /\ cArgs \in ArgumentPalette
    /\ cPc = "start"
    /\ cRequests = <<>>
    /\ cRaised = ""
    /\ cLog = ""
    /\ cExit = -1

\* parse_arguments: argparse leaves with status 2 on a word outside choices
ParseArguments ==
    /\ cPc = "start"
    /\ IF cArgs.command \in CommandChoices
       THEN cPc' = "parsed" /\ UNCHANGED <<cRaised, cLog, cExit>>
       ELSE Leave("SystemExit(2)")
    /\ UNCHANGED <<cArgs, cRequests>>
    /\ UNCHANGED <<finderVars, taskVars, authVars, itypeVars, priceVars, statusVars, regionVars, excVars, spinnerVars, portVars, instanceVars, tableVars, bidVars, displayVars>>

\* initialize_foundry_client, first half: get_config and the Authenticator,
\* whose constructor logs in
ConstructAuthenticator ==
    /\ cPc = "parsed"
    /\ \E outcome \in {"config_error", "login_failed", "ok"} :
          /\ cRequests' = IF outcome = "config_error" THEN cRequests
                          ELSE Append(cRequests, LoginRequest)
          /\ IF outcome = "ok"
             THEN cPc' = "authenticated" /\ UNCHANGED <<cRaised, cLog, cExit>>
             ELSE Leave("Exception")
    /\ UNCHANGED cArgs
    /\ UNCHANGED <<finderVars, taskVars, authVars, itypeVars, priceVars, statusVars, regionVars, excVars, spinnerVars, portVars, instanceVars, tableVars, bidVars, displayVars>>

\* initialize_foundry_client, second half: the FCPClient, whose constructor
\* looks the user up, then the StorageClient and the managers
ConstructFCPClient ==
    /\ cPc = "authenticated"
    /\ cRequests' = Append(cRequests, UserLookupRequest)
    /\ \E ok \in BOOLEAN :
          IF ok
          THEN cPc' = "client_ready" /\ UNCHANGED <<cRaised, cLog, cExit>>
          ELSE Leave("Exception")
    /\ UNCHANGED cArgs
    /\ UNCHANGED <<finderVars, taskVars, authVars, itypeVars, priceVars, statusVars, regionVars, excVars, spinnerVars, portVars, instanceVars, tableVars, bidVars, displayVars>>

\* the command dispatch, up to the first request of the command
DispatchCommand ==
    /\ cPc = "client_ready"
    /\ IF MissingArgument(cArgs)
       THEN Leave("SystemExit(1)")
       ELSE \E parsed \in BOOLEAN :
               IF cArgs.command = "submit" /\ ~parsed
               THEN Leave("Exception")
               ELSE cPc' = "running" /\ UNCHANGED <<cRaised, cLog, cExit>>
    /\ UNCHANGED <<cArgs, cRequests>>
    /\ UNCHANGED <<finderVars, taskVars, authVars, itypeVars, priceVars, statusVars, regionVars, excVars, spinnerVars, portVars, instanceVars, tableVars, bidVars, displayVars>>

\* the command issues its next request; the command fails on the answer,
\* goes on, or completes
CommandRequest ==
    /\ cPc = "running"
    /\ LET issued == Len(cRequests) - 2
           requests == CommandRequests(cArgs.command)
       IN  /\ issued < Len(requests)
           /\ cRequests' = Append(cRequests, requests[issued + 1])
           /\ \E ok \in BOOLEAN :
                 IF ~ok THEN Leave("Exception")
                 ELSE IF issued + 1 = Len(requests) THEN Leave("none")
                 ELSE UNCHANGED <<cPc, cRaised, cLog, cExit>>
    /\ UNCHANGED cArgs
    /\ UNCHANGED <<finderVars, taskVars, authVars, itypeVars, priceVars, statusVars, regionVars, excVars, spinnerVars, portVars, instanceVars, tableVars, bidVars, displayVars>>

\* the operator presses Ctrl-C while main() runs
KeyboardInterrupt ==
    /\ cPc \in {"start", "parsed", "authenticated", "client_ready", "running"}
    /\ Leave("KeyboardInterrupt")
    /\ UNCHANGED <<cArgs, cRequests>>
    /\ UNCHANGED <<finderVars, taskVars, authVars, itypeVars, priceVars, statusVars, regionVars, excVars, spinnerVars, portVars, instanceVars, tableVars, bidVars, displayVars>>

NextCli ==
    \/ ParseArguments
    \/ ConstructAuthenticator
    \/ ConstructFCPClient
    \/ DispatchCommand
    \/ CommandRequest
    \/ KeyboardInterrupt

----------------------------------------------------------------------------
(* Port, its validators and get_port_mappings (task_config/models.py).     *)

\* one side of a port entry: key omitted, null, an integer or a string
PortAbsent == [kind |-> "absent", n |-> 0, s |-> <<>>]
PortNone == [kind |-> "none", n |-> 0, s |-> <<>>]
PortInt(n) == [kind |-> "int", n |-> n, s |-> <<>>]
PortStr(s) == [kind |-> "str", n |-> 0, s |-> s]

PortValuePalette ==
    { PortAbsent, PortNone }
    \cup { PortInt(n) : n \in { 0, 1, 8080, 65535, 65536 } }
    \cup { PortStr(s) : s \in
          { <<"8", "0", "8", "0">>,
            <<"6", "0", "0", "6", "-", "6", "0", "0", "8">>,
            <<"1", "-", "3">>,
            <<"1", "-", "2">>,
            <<"0">>,
            <<"6", "5", "5", "3", "6">>,
            <<"5", "-", "3">>,
            <<"1", "-", "2", "-", "3">>,
            <<"a">>,
            <<"-", "5">>,
            <<>>,
            <<"6", "5", "5", "3", "5", "-", "6", "5", "5", "3", "6">>,
            <<"8", "0", "-", "a">> } }

PortEntries == [external : PortValuePalette, internal : PortValuePalette]

\* str.isdigit()
IsDigit(s) == Len(s) > 0 /\ \A i \in 1..Len(s) : s[i] \in DigitChars

DigitValue(c) == CHOOSE d \in 0..9 : DigitChar(d) = c

RECURSIVE ParseDigits(_)
\* int() of a string of digits
ParseDigits(s) ==
    IF Len(s) = 1 THEN DigitValue(s[1])
    ELSE ParseDigits(SubSeq(s, 1, Len(s) - 1)) * 10 + DigitValue(s[Len(s)])

RECURSIVE SplitDash(_)
\* str.split("-")
SplitDash(s) ==
    LET hits == { i \in 1..Len(s) : s[i] = "-" }
    IN  IF hits = {} THEN <<s>>
        ELSE LET i == FirstIndex(hits)
             IN  <<SubSeq(s, 1, i - 1)>> \o SplitDash(SubSeq(s, i + 1, Len(s)))

\* validate_single_port: "" when it returns, else the exception raised
ValidateSinglePort(port_value) ==
    IF 1 <= port_value /\ port_value <= 65535 THEN "" ELSE "ValueError"

\* validate_port_range
ValidatePortRange(port_range_str) ==
    LET parts == SplitDash(port_range_str)
    IN  IF Len(parts) # 2 THEN "ValueError"
        ELSE IF ~IsDigit(parts[1]) \/ ~IsDigit(parts[2]) THEN "ValueError"
        ELSE LET start_port == ParseDigits(parts[1])
                 end_port == ParseDigits(parts[2])
             IN  IF 1 <= start_port /\ start_port <= end_port /\ end_port <= 65535
                 THEN "" ELSE "ValueError"

\* validate_port_value
ValidatePortValue(port_value) ==
    CASE port_value.kind = "none" -> "ValueError"
      [] port_value.kind = "int" -> ValidateSinglePort(port_value.n)
      [] port_value.kind = "str" ->
            IF StrContains(<<"-">>, port_value.s)
            THEN ValidatePortRange(port_value.s)
            ELSE IF ~IsDigit(port_value.s) THEN "ValueError"
            ELSE ValidateSinglePort(ParseDigits(port_value.s))
      [] OTHER -> "TypeError"

\* list(range(start_port, end_port + 1))
RangeList(start_port, end_port) ==
    [i \in 1..(end_port - start_port + 1) |-> start_port + i - 1]

\* expand_port_spec
ExpandPortSpec(port_spec) ==
    CASE port_spec.kind = "int" -> Returns(<<port_spec.n>>)
      [] port_spec.kind = "str" ->
            IF StrContains(<<"-">>, port_spec.s)
            THEN IF ValidatePortRange(port_spec.s) # ""
                 THEN [st |-> "raise", v |-> "ValueError"]
                 ELSE LET parts == SplitDash(port_spec.s)
                      IN  Returns(RangeList(ParseDigits(parts[1]), ParseDigits(parts[2])))
            ELSE IF ~IsDigit(port_spec.s) THEN [st |-> "raise", v |-> "ValueError"]
            ELSE IF ValidateSinglePort(ParseDigits(port_spec.s)) # ""
                 THEN [st |-> "raise", v |-> "ValueError"]
            ELSE Returns(<<ParseDigits(port_spec.s)>>)
      \* `"-" in None`
      [] OTHER -> [st |-> "raise", v |-> "TypeError"]

\* list(zip(external_ports, internal_ports))
Zip(external_ports, internal_ports) ==
    LET n == IF Len(external_ports) <= Len(internal_ports)
             THEN Len(external_ports) ELSE Len(internal_ports)
    IN  [i \in 1..n |-> <<external_ports[i], internal_ports[i]>>]

\* a variant without the length check
GetPortMappings_Truncating(port) ==
    LET external_ports == ExpandPortSpec(port.external)
        internal_ports == ExpandPortSpec(port.internal)
    IN  IF external_ports.st # "ok" THEN external_ports
        ELSE IF internal_ports.st # "ok" THEN internal_ports
        ELSE Returns(Zip(external_ports.v, internal_ports.v))

\* Port.get_port_mappings
GetPortMappings(port) ==
    LET external_ports == ExpandPortSpec(port.external)
        internal_ports == ExpandPortSpec(port.internal)
    IN  IF external_ports.st # "ok" THEN external_ports
        ELSE IF internal_ports.st # "ok" THEN internal_ports
        ELSE IF Len(external_ports.v) # Len(internal_ports.v)
             THEN [st |-> "raise", v |-> "ValueError"]
        ELSE Returns(Zip(external_ports.v, internal_ports.v))

\* the field validator of one side: it runs on a value the entry gives,
\* null included, and does not run on the default of an omitted key
PortFieldError(port_value) ==
    IF port_value.kind = "absent" THEN "" ELSE ValidatePortValue(port_value)

\* the value the validated Port holds for one side
PortFieldValue(port_value) ==
    IF port_value.kind = "absent" THEN PortNone ELSE port_value

NoPort == [external |-> PortNone, internal |-> PortNone]

NoMappings == [st |-> "none", v |-> <<>>]

PortIdle ==
    /\ ptEntry = NoPort
    /\ ptPort = NoPort
    /\ ptMappings = NoMappings
    /\ ptPc = "idle"

PortInit ==
    /\ ptEntry \in PortEntries
    /\ ptPort = NoPort
    /\ ptMappings = NoMappings
    /\ ptPc = "ready"

\* validation of one port entry into a Port
ValidatePort ==
    /\ ptPc = "ready"
    /\ IF PortFieldError(ptEntry.external) = "" /\ PortFieldError(ptEntry.internal) = ""
       THEN /\ ptPort' = [external |-> PortFieldValue(ptEntry.external),
                          internal |-> PortFieldValue(ptEntry.internal)]
            /\ ptPc' = "accepted"
       ELSE /\ ptPort' = NoPort
            /\ ptPc' = "rejected"
    /\ UNCHANGED <<ptEntry, ptMappings>>
    /\ UNCHANGED <<finderVars, taskVars, authVars, itypeVars, cliVars, priceVars, statusVars, regionVars, excVars, spinnerVars, instanceVars, tableVars, bidVars, displayVars>>

\* port.get_port_mappings() on an accepted Port
CallGetPortMappings ==
    /\ ptPc = "accepted"
    /\ ptMappings' = GetPortMappings(ptPort)
    /\ ptPc' = "mapped"
    /\ UNCHANGED <<ptEntry, ptPort>>
    /\ UNCHANGED <<finderVars, taskVars, authVars, itypeVars, cliVars, priceVars, statusVars, regionVars, excVars, spinnerVars, instanceVars, tableVars, bidVars, displayVars>>

NextPort == ValidatePort \/ CallGetPortMappings

----------------------------------------------------------------------------
(* Instance.model_post_init (models/instance.py).                          *)

S_Placeholder == <<"-", "-", "-">>
S_NA == <<"N", "/", "A">>

WhitespaceChars == { " " }

RECURSIVE StripLeft(_)
StripLeft(s) ==
    IF s # <<>> /\ Head(s) \in WhitespaceChars THEN StripLeft(Tail(s)) ELSE s

RECURSIVE StripRight(_)
StripRight(s) ==
    IF s # <<>> /\ s[Len(s)] \in WhitespaceChars
    THEN StripRight(SubSeq(s, 1, Len(s) - 1)) ELSE s

\* str.strip()
Strip(s) == StripRight(StripLeft(s))

\* Optional[Dict]: absent, or a mapping that may hold the key of interest
NoDict == [kind |-> "none", empty |-> TRUE, has |-> FALSE, v |-> <<>>]
EmptyDict == [kind |-> "dict", empty |-> TRUE, has |-> FALSE, v |-> <<>>]
DictWith(v) == [kind |-> "dict", empty |-> FALSE, has |-> TRUE, v |-> v]
DictWithout == [kind |-> "dict", empty |-> FALSE, has |-> FALSE, v |-> <<>>]
NotADict == [kind |-> "str", empty |-> FALSE, has |-> FALSE, v |-> <<>>]

\* truthiness of such a value
TruthyDict(d) == d.kind # "none" /\ ~d.empty

InstanceArgs ==
    [ instance_type : { NoneStr, Some(<<"a", "1", "0", "0">>) },
      ip_address : { NoneStr, Some(<<>>), Some(S_Placeholder),
                     Some(<<" ", "-", "-", "-", " ">>), Some(<<"1", "0", ".", "0", ".", "0", ".", "1">>) },
      category : { NoneStr, Some(<<"s", "p", "o", "t">>) },
      region : { NoneStr, Some(<<"u", "s">>) },
      ssh_destination : { NoneStr, Some(<<>>), Some(<<"h", "o", "s", "t">>) },
      order_type : { NoneStr, Some(<<>>), Some(<<"S", "p", "o", "t">>) },
      metadata : { NoDict, EmptyDict, DictWithout, DictWith(<<"e", "u">>) },
      connection_info : { NoDict, EmptyDict, DictWithout, NotADict,
                          DictWith(<<"1", ".", "2", ".", "3", ".", "4">>) } ]

\* a variant that derives the category whether or not one was given
ModelPostInit_DerivesCategory(self) ==
    [self EXCEPT !.category = Some(Lower(IF TruthyStr(self.order_type)
                                         THEN self.order_type.v ELSE S_NA))]

\* model_post_init, on the object holding the constructor's fields
ModelPostInit(self) ==
    LET s1 == IF ~self.instance_type.some
              THEN [self EXCEPT !.instance_type = Some(S_Placeholder)] ELSE self
        s2 == IF ~s1.ip_address.some
              THEN [s1 EXCEPT !.ip_address =
                        Some(IF TruthyStr(s1.ssh_destination)
                             THEN s1.ssh_destination.v ELSE S_Placeholder)]
              ELSE s1
        s3 == IF ~s2.category.some
              THEN [s2 EXCEPT !.category =
                        Some(Lower(IF TruthyStr(s2.order_type)
                                   THEN s2.order_type.v ELSE S_NA))]
              ELSE s2
        s4 == IF ~s3.region.some
              THEN [s3 EXCEPT !.region =
                        IF TruthyDict(s3.metadata) /\ s3.metadata.has
                        THEN Some(s3.metadata.v) ELSE Some(S_Placeholder)]
              ELSE s3
    IN  IF /\ ~TruthyStr(s4.ip_address) \/ Strip(s4.ip_address.v) = S_Placeholder
           /\ TruthyDict(s4.connection_info)
           /\ s4.connection_info.kind = "dict"
           /\ s4.connection_info.has
        THEN [s4 EXCEPT !.ip_address = Some(s4.connection_info.v)]
        ELSE s4

NoInstance ==
    [ instance_type |-> NoneStr, ip_address |-> NoneStr, category |-> NoneStr,
      region |-> NoneStr, ssh_destination |-> NoneStr, order_type |-> NoneStr,
      metadata |-> NoDict, connection_info |-> NoDict ]

InstanceIdle ==
    /\ inArgs = NoInstance
    /\ inObj = NoInstance
    /\ inPc = "idle"

InstanceInit ==
    /\ inArgs \in InstanceArgs
    /\ inObj = NoInstance
    /\ inPc = "ready"

\* Instance(**inArgs): the fields are set, then model_post_init runs
ConstructInstance ==
    /\ inPc = "ready"
    /\ inObj' = ModelPostInit(inArgs)
    /\ inPc' = "done"
    /\ UNCHANGED inArgs
    /\ UNCHANGED <<finderVars, taskVars, authVars, itypeVars, cliVars, priceVars, statusVars, regionVars, excVars, spinnerVars, portVars, tableVars, bidVars, displayVars>>

NextInstance == ConstructInstance

----------------------------------------------------------------------------
(* TableFormatter.format_instances (formatters/table_formatter.py).        *)

\* Optional[datetime]: absent, without a timezone, or with one (as parsed
\* from a timestamp ending in "Z"); t is the instant
NoDate == [kind |-> "none", t |-> 0]
NaiveDate(t) == [kind |-> "naive", t |-> t]
AwareDate(t) == [kind |-> "aware", t |-> t]

InstanceRow(name, start_date) == [name |-> name, start_date |-> start_date]

InstancePalette ==
    { InstanceRow(n, d) : n \in { "i1", "i2" },
                          d \in { NoDate, NaiveDate(1), NaiveDate(2),
                                   AwareDate(1), AwareDate(2) } }

\* datetime.datetime.min, which has no timezone
DatetimeMin == [kind |-> "naive", t |-> -1]

\* _get_start_date
GetStartDate(instance) ==
    IF instance.start_date.kind # "none" THEN instance.start_date ELSE DatetimeMin

\* datetime comparison raises TypeError between a value with a timezone
\* and one without
Comparable(d1, d2) == d1.kind = d2.kind

RECURSIVE InsertDescending(_, _)
\* x goes after every element whose key is not smaller: equal keys keep
\* their original order, as sorted(..., reverse=True) does
InsertDescending(sorted, x) ==
    IF sorted = <<>> THEN <<x>>
    ELSE IF GetStartDate(Head(sorted)).t >= GetStartDate(x).t
         THEN <<Head(sorted)>> \o InsertDescending(Tail(sorted), x)
         ELSE <<x>> \o sorted

RECURSIVE SortLoop(_, _)
SortLoop(sorted, rest) ==
    IF rest = <<>> THEN sorted
    ELSE SortLoop(InsertDescending(sorted, Head(rest)), Tail(rest))

\* sorted(instances, key=_get_start_date, reverse=True)
SortedByStartDate(instances) ==
    IF \E i, j \in 1..Len(instances) :
           ~Comparable(GetStartDate(instances[i]), GetStartDate(instances[j]))
    THEN [st |-> "raise", v |-> <<>>]
    ELSE Returns(SortLoop(<<>>, instances))

\* instances_sorted[: self.max_rows]
Truncate(seq, n) == SubSeq(seq, 1, IF Len(seq) <= n THEN Len(seq) ELSE n)

\* format_instances: the rows it adds to the table
FormatInstances(instances, max_rows) ==
    IF instances = <<>> THEN Returns(<<>>)
    ELSE LET instances_sorted == SortedByStartDate(instances)
         IN  IF instances_sorted.st # "ok" THEN [st |-> "raise", v |-> <<>>]
             ELSE Returns(Truncate(instances_sorted.v, max_rows))

NoRows == [st |-> "none", v |-> <<>>]

TableIdle ==
    /\ fiInstances = <<>>
    /\ fiMaxRows = 0
    /\ fiRows = NoRows
    /\ fiPc = "idle"

TableInit ==
    /\ fiInstances \in SeqsUpTo(InstancePalette, MaxInstances)
    /\ fiMaxRows \in { 1, 2, 5 }
    /\ fiRows = NoRows
    /\ fiPc = "ready"

\* TableFormatter(max_rows).format_instances(instances)
CallFormatInstances ==
    /\ fiPc = "ready"
    /\ fiRows' = FormatInstances(fiInstances, fiMaxRows)
    /\ fiPc' = "done"
    /\ UNCHANGED <<fiInstances, fiMaxRows>>
    /\ UNCHANGED <<finderVars, taskVars, authVars, itypeVars, cliVars, priceVars, statusVars, regionVars, excVars, spinnerVars, portVars, instanceVars, bidVars, displayVars>>

NextTable == CallFormatInstances

----------------------------------------------------------------------------
(* FCPClient.place_bid over the retrying session (clients/fcp_client.py).  *)

\* One POST of the bid as the platform handled it: the answer, and whether
\* a bid was stored while handling it.  A 200 answers a stored bid; a 400
\* or 429 refuses the request; a failure to connect never reaches the
\* platform; a 500, a gateway's 504 and a read timeout can each follow a
\* bid that was stored or one that was not.
PlaceBidAttempts ==
    { [attempt |-> StatusAttempt(200, <<>>, j), created |-> TRUE] :
          j \in { "object_ok", "object_invalid", "not_json" } }
    \cup { [attempt |-> StatusAttempt(st, <<>>, ""), created |-> FALSE] :
              st \in { 400, 429 } }
    \cup { [attempt |-> TransportFailure("connection_error"), created |-> FALSE] }
    \cup { [attempt |-> StatusAttempt(st, <<>>, ""), created |-> c] :
              st \in { 500, 504 }, c \in BOOLEAN }
    \cup { [attempt |-> TransportFailure("read_timeout"), created |-> c] :
              c \in BOOLEAN }

\* place_bid, given what the session came back with
PlaceBid(outcome) ==
    LET r == Request(outcome)
    IN  IF r.kind # "response" THEN r
        \* _parse_json re-raises the decoding error
        ELSE IF outcome.response.json = "not_json"
        THEN Raised("JSONDecodeError", <<>>, r.status)
        ELSE IF outcome.response.json = "object_invalid"
        THEN Raised("APIError", <<>>, r.status)
        ELSE [kind |-> "value", err |-> "", message |-> <<>>, status |-> r.status,
              id |-> "bid-1", name |-> <<>>]

PlaceBidIdle ==
    /\ pbAttempts = <<>>
    /\ pbResult = NoInstanceType
    /\ pbPc = "idle"

PlaceBidInit ==
    /\ pbAttempts = <<>>
    /\ pbResult = NoInstanceType
    /\ pbPc = "sending"

\* one POST .../spot-auctions/bids is sent and answered; the adapter sends
\* the same request again
PlaceBidRetried ==
    /\ pbPc = "sending"
    /\ \E a \in PlaceBidAttempts :
          /\ ShouldRetry("POST", FCPAllowedMethods, DefaultMaxRetries,
                         Len(pbAttempts), a.attempt)
          /\ pbAttempts' = Append(pbAttempts, a)
    /\ UNCHANGED <<pbResult, pbPc>>
    /\ UNCHANGED <<finderVars, taskVars, authVars, itypeVars, cliVars, priceVars, statusVars, regionVars, excVars, spinnerVars, portVars, instanceVars, tableVars, displayVars>>

\* the last POST is answered, and place_bid evaluates it
PlaceBidFinished ==
    /\ pbPc = "sending"
    /\ \E a \in PlaceBidAttempts :
          /\ ~ShouldRetry("POST", FCPAllowedMethods, DefaultMaxRetries,
                          Len(pbAttempts), a.attempt)
          /\ pbAttempts' = Append(pbAttempts, a)
          /\ pbResult' = PlaceBid(SessionOutcome("POST", FCPAllowedMethods, a.attempt))
    /\ pbPc' = "done"
    /\ UNCHANGED <<finderVars, taskVars, authVars, itypeVars, cliVars, priceVars, statusVars, regionVars, excVars, spinnerVars, portVars, instanceVars, tableVars, displayVars>>

NextPlaceBid == PlaceBidRetried \/ PlaceBidFinished

----------------------------------------------------------------------------
(* main() with its spinner scopes, and the spinner scope of                *)
(* FlowTaskManager.run (main.py, managers/task_manager.py).                *)

MaxCliRecords == 2

Commands == { "submit", "status", "cancel" }

S_Initializing == "Initializing foundry client..."

\* the message of the command's spinner scope in main()
CommandMessage(command) ==
    CASE command = "submit" -> ""
      [] command = "status" -> "Checking status..."
      [] OTHER -> "Canceling task..."

DisplayIdle ==
    /\ dCommand = "none"
    /\ dCli = NewSpinnerLogger
    /\ dTm = NewSpinnerLogger
    /\ dRecords = 0
    /\ dExit = -1
    /\ dPc = "idle"

DisplayInit ==
    /\ dCommand \in Commands
    /\ dCli = NewSpinnerLogger
    /\ dTm = NewSpinnerLogger
    /\ dRecords = 0
    /\ dExit = -1
    /\ dPc = "start"

\* with spinner_logger.spinner("Initializing foundry client...", ...):
EnterInitScope ==
    /\ dPc = "start"
    /\ dCli' = SpinnerEnter(dCli, S_Initializing, TRUE)
    /\ dPc' = "init"
    /\ UNCHANGED <<dCommand, dTm, dRecords, dExit>>
    /\ UNCHANGED <<finderVars, taskVars, authVars, itypeVars, cliVars, priceVars, statusVars, regionVars, excVars, spinnerVars, portVars, instanceVars, tableVars, bidVars>>

\* the client and the managers are constructed, or the construction raises
\* and main() returns 1
LeaveInitScope ==
    /\ dPc = "init"
    /\ \E raised \in BOOLEAN :
          /\ dPc' = IF raised THEN "exit" ELSE "dispatch"
          /\ dExit' = IF raised THEN 1 ELSE dExit
    /\ dCli' = SpinnerExit(dCli, TRUE, S_Initializing, TRUE)
    /\ UNCHANGED <<dCommand, dTm, dRecords>>
    /\ UNCHANGED <<finderVars, taskVars, authVars, itypeVars, cliVars, priceVars, statusVars, regionVars, excVars, spinnerVars, portVars, instanceVars, tableVars, bidVars>>

\* with spinner_logger.spinner(<message of the command>, enable_sub_steps=True):
EnterCommandScope ==
    /\ dPc = "dispatch"
    /\ dCli' = SpinnerEnter(dCli, CommandMessage(dCommand), TRUE)
    /\ dPc' = "command"
    /\ UNCHANGED <<dCommand, dTm, dRecords, dExit>>
    /\ UNCHANGED <<finderVars, taskVars, authVars, itypeVars, cliVars, priceVars, statusVars, regionVars, excVars, spinnerVars, portVars, instanceVars, tableVars, bidVars>>

\* run_*_command up to FlowTaskManager(...), whose __init__ creates the
\* manager's SpinnerLogger; a missing argument or a configuration file
\* that does not parse ends the command before that
ConstructTaskManager ==
    /\ dPc = "command"
    /\ \E ok \in BOOLEAN :
          /\ (dCommand = "status") => ok
          /\ dPc' = IF ok THEN "manager" ELSE "leaving"
          /\ dExit' = IF ok THEN dExit ELSE 1
    /\ dTm' = NewSpinnerLogger
    /\ UNCHANGED <<dCommand, dCli, dRecords>>
    /\ UNCHANGED <<finderVars, taskVars, authVars, itypeVars, cliVars, priceVars, statusVars, regionVars, excVars, spinnerVars, portVars, instanceVars, tableVars, bidVars>>

\* task_manager.run(): with self.logger_manager.spinner(""):
EnterRunScope ==
    /\ dPc = "manager" /\ dCommand = "submit"
    /\ dTm' = SpinnerEnter(dTm, "", FALSE)
    /\ dPc' = "running"
    /\ UNCHANGED <<dCommand, dCli, dRecords, dExit>>
    /\ UNCHANGED <<finderVars, taskVars, authVars, itypeVars, cliVars, priceVars, statusVars, regionVars, excVars, spinnerVars, portVars, instanceVars, tableVars, bidVars>>

\* the body of run() ends, normally or with an exception
LeaveRunScope ==
    /\ dPc = "running"
    /\ \E raised \in BOOLEAN : dExit' = IF raised THEN 1 ELSE dExit
    /\ dTm' = SpinnerExit(dTm, TRUE, "", TRUE)
    /\ dPc' = "leaving"
    /\ UNCHANGED <<dCommand, dCli, dRecords>>
    /\ UNCHANGED <<finderVars, taskVars, authVars, itypeVars, cliVars, priceVars, statusVars, regionVars, excVars, spinnerVars, portVars, instanceVars, tableVars, bidVars>>

\* task_manager.check_status(...) or task_manager.cancel_bid(...): neither
\* opens a spinner scope
CallWithoutScope ==
    /\ dPc = "manager" /\ dCommand \in { "status", "cancel" }
    /\ \E raised \in BOOLEAN : dExit' = IF raised THEN 1 ELSE dExit
    /\ dPc' = "leaving"
    /\ UNCHANGED <<dCommand, dCli, dTm, dRecords>>
    /\ UNCHANGED <<finderVars, taskVars, authVars, itypeVars, cliVars, priceVars, statusVars, regionVars, excVars, spinnerVars, portVars, instanceVars, tableVars, bidVars>>

\* the command's scope in main() is left and main() returns
LeaveCommandScope ==
    /\ dPc = "leaving"
    /\ dCli' = SpinnerExit(dCli, TRUE, CommandMessage(dCommand), TRUE)
    /\ dExit' = IF dExit = -1 THEN 0 ELSE dExit
    /\ dPc' = "exit"
    /\ UNCHANGED <<dCommand, dTm, dRecords>>
    /\ UNCHANGED <<finderVars, taskVars, authVars, itypeVars, cliVars, priceVars, statusVars, regionVars, excVars, spinnerVars, portVars, instanceVars, tableVars, bidVars>>

\* a record of the flow.task_config logger reaches the handler main()
\* attached to it
InterceptConfigRecord ==
    /\ dPc \in { "init", "dispatch", "command", "manager", "running", "leaving" }
    /\ dRecords < MaxCliRecords
    /\ \E level \in LogLevels :
          dCli' = HandleExternalLog(dCli, dRecords + 1, level)
    /\ dRecords' = dRecords + 1
    /\ UNCHANGED <<dCommand, dTm, dExit, dPc>>
    /\ UNCHANGED <<finderVars, taskVars, authVars, itypeVars, cliVars, priceVars, statusVars, regionVars, excVars, spinnerVars, portVars, instanceVars, tableVars, bidVars>>

NextDisplay ==
    \/ EnterInitScope
    \/ LeaveInitScope
    \/ EnterCommandScope
    \/ ConstructTaskManager
    \/ EnterRunScope
    \/ LeaveRunScope
    \/ CallWithoutScope
    \/ LeaveCommandScope
    \/ InterceptConfigRecord

NextFinder == FindMatching

InitFinder == FinderInit /\ TaskIdle /\ AuthIdle /\ ITypeIdle /\ CliIdle /\ PriceIdle /\ StatusIdle /\ RegionIdle /\ ExcIdle /\ SpinnerIdle /\ PortIdle /\ InstanceIdle /\ TableIdle /\ PlaceBidIdle /\ DisplayIdle

SpecFinder == InitFinder /\ [][NextFinder]_vars

InitTask == TaskInit /\ FinderIdle /\ AuthIdle /\ ITypeIdle /\ CliIdle /\ PriceIdle /\ StatusIdle /\ RegionIdle /\ ExcIdle /\ SpinnerIdle /\ PortIdle /\ InstanceIdle /\ TableIdle /\ PlaceBidIdle /\ DisplayIdle

SpecTask == InitTask /\ [][NextTask]_vars

InitAuth == AuthInit /\ FinderIdle /\ TaskIdle /\ ITypeIdle /\ CliIdle /\ PriceIdle /\ StatusIdle /\ RegionIdle /\ ExcIdle /\ SpinnerIdle /\ PortIdle /\ InstanceIdle /\ TableIdle /\ PlaceBidIdle /\ DisplayIdle

SpecAuth == InitAuth /\ [][NextAuth]_vars

InitIType == ITypeInit /\ FinderIdle /\ TaskIdle /\ AuthIdle /\ CliIdle /\ PriceIdle /\ StatusIdle /\ RegionIdle /\ ExcIdle /\ SpinnerIdle /\ PortIdle /\ InstanceIdle /\ TableIdle /\ PlaceBidIdle /\ DisplayIdle

SpecIType == InitIType /\ [][NextIType]_vars

InitCli == CliInit /\ FinderIdle /\ TaskIdle /\ AuthIdle /\ ITypeIdle /\ PriceIdle /\ StatusIdle /\ RegionIdle /\ ExcIdle /\ SpinnerIdle /\ PortIdle /\ InstanceIdle /\ TableIdle /\ PlaceBidIdle /\ DisplayIdle

InitPrice == PriceInit /\ FinderIdle /\ TaskIdle /\ AuthIdle /\ ITypeIdle /\ CliIdle /\ StatusIdle /\ RegionIdle /\ ExcIdle /\ SpinnerIdle /\ PortIdle /\ InstanceIdle /\ TableIdle /\ PlaceBidIdle /\ DisplayIdle

InitStatus == StatusInit /\ FinderIdle /\ TaskIdle /\ AuthIdle /\ ITypeIdle /\ CliIdle /\ PriceIdle /\ RegionIdle /\ ExcIdle /\ SpinnerIdle /\ PortIdle /\ InstanceIdle /\ TableIdle /\ PlaceBidIdle /\ DisplayIdle

InitRegion == RegionInit /\ FinderIdle /\ TaskIdle /\ AuthIdle /\ ITypeIdle /\ CliIdle /\ PriceIdle /\ StatusIdle /\ ExcIdle /\ SpinnerIdle /\ PortIdle /\ InstanceIdle /\ TableIdle /\ PlaceBidIdle /\ DisplayIdle

InitExc == ExcInit /\ FinderIdle /\ TaskIdle /\ AuthIdle /\ ITypeIdle /\ CliIdle /\ PriceIdle /\ StatusIdle /\ RegionIdle /\ SpinnerIdle /\ PortIdle /\ InstanceIdle /\ TableIdle /\ PlaceBidIdle /\ DisplayIdle

InitSpinner == SpinnerInit /\ FinderIdle /\ TaskIdle /\ AuthIdle /\ ITypeIdle /\ CliIdle /\ PriceIdle /\ StatusIdle /\ RegionIdle /\ ExcIdle /\ PortIdle /\ InstanceIdle /\ TableIdle /\ PlaceBidIdle /\ DisplayIdle

InitPort == PortInit /\ SpinnerIdle /\ FinderIdle /\ TaskIdle /\ AuthIdle /\ ITypeIdle /\ CliIdle /\ PriceIdle /\ StatusIdle /\ RegionIdle /\ ExcIdle /\ InstanceIdle /\ TableIdle /\ PlaceBidIdle /\ DisplayIdle

InitInstance == InstanceInit /\ PortIdle /\ SpinnerIdle /\ FinderIdle /\ TaskIdle /\ AuthIdle /\ ITypeIdle /\ CliIdle /\ PriceIdle /\ StatusIdle /\ RegionIdle /\ ExcIdle /\ TableIdle /\ PlaceBidIdle /\ DisplayIdle

InitTable == TableInit /\ InstanceIdle /\ PortIdle /\ SpinnerIdle /\ FinderIdle /\ TaskIdle /\ AuthIdle /\ ITypeIdle /\ CliIdle /\ PriceIdle /\ StatusIdle /\ RegionIdle /\ ExcIdle /\ PlaceBidIdle /\ DisplayIdle

InitPlaceBid == PlaceBidInit /\ TableIdle /\ InstanceIdle /\ PortIdle /\ SpinnerIdle /\ FinderIdle /\ TaskIdle /\ AuthIdle /\ ITypeIdle /\ CliIdle /\ PriceIdle /\ StatusIdle /\ RegionIdle /\ ExcIdle /\ DisplayIdle

InitDisplay == DisplayInit /\ PlaceBidIdle /\ TableIdle /\ InstanceIdle /\ PortIdle /\ SpinnerIdle /\ FinderIdle /\ TaskIdle /\ AuthIdle /\ ITypeIdle /\ CliIdle /\ PriceIdle /\ StatusIdle /\ RegionIdle /\ ExcIdle

SpecCli == InitCli /\ [][NextCli]_vars

SpecPrice == InitPrice /\ [][NextPrice]_vars

SpecStatus == InitStatus /\ [][NextStatus]_vars

SpecRegion == InitRegion /\ [][NextRegion]_vars

SpecExc == InitExc /\ [][NextExc]_vars

SpecSpinner == InitSpinner /\ [][NextSpinner]_vars

SpecPort == InitPort /\ [][NextPort]_vars

SpecInstance == InitInstance /\ [][NextInstance]_vars

SpecTable == InitTable /\ [][NextTable]_vars

SpecPlaceBid == InitPlaceBid /\ [][NextPlaceBid]_vars

SpecDisplay == InitDisplay /\ [][NextDisplay]_vars


----------------------------------------------------------------------------
(* Properties of the auction finder.                                       *)

InSeq(x, q) == \E j \in 1..Len(q) : q[j] = x

\* w occurs in s between two word boundaries
WholeWordOccurs(w, s) ==
    LET isWord(i) == i \in 1..Len(s) /\ s[i] \in WordChars
    IN  \E p \in 0..Len(s) :
            /\ p + Len(w) <= Len(s)
            /\ SubSeq(s, p + 1, p + Len(w)) = w
            /\ isWord(p) # isWord(p + 1)
            /\ isWord(p + Len(w)) # isWord(p + Len(w) + 1)

GpuCriterionSatisfied(a, c) ==
    WholeWordOccurs(Lower(c.gpu_type.v),
                    IF a.gpu_type.some THEN Lower(a.gpu_type.v) ELSE <<>>)

EveryPresentCriterionSatisfied(a, c) ==
    /\ TruthyStr(c.gpu_type) => GpuCriterionSatisfied(a, c)
    /\ c.num_gpus.some =>
          a.inventory_quantity.some /\ a.inventory_quantity.v >= c.num_gpus.v
    /\ TruthyStr(c.internode_interconnect) =>
          Lower(OrEmpty(a.internode_interconnect)) = Lower(c.internode_interconnect.v)
    /\ TruthyStr(c.intranode_interconnect) =>
          Lower(OrEmpty(a.intranode_interconnect)) = Lower(c.intranode_interconnect.v)

NoCriteriaSet(c) ==
    /\ ~c.gpu_type.some
    /\ ~c.num_gpus.some
    /\ ~c.internode_interconnect.some
    /\ ~c.intranode_interconnect.some

\* C9: find_matching_auctions returns exactly the input auctions that satisfy
\* every criterion present in the criteria, in their original order and
\* without duplication; with no criterion set it returns the whole input.
C9_ReturnsExactlySatisfying ==
    fPc = "done" =>
        /\ fResult = SelectSeq(fAuctions,
                               LAMBDA a : EveryPresentCriterionSatisfied(a, fCriteria))
        /\ NoCriteriaSet(fCriteria) => fResult = fAuctions

C9_Witness ==
    /\ fPc = "done"
    /\ Len(fAuctions) = 2
    /\ Len(fResult) = 1
    /\ fResult[1] = fAuctions[2]
    /\ TruthyStr(fCriteria.gpu_type)
    /\ fCriteria.num_gpus.some

OnlyGpuCriterion(c) ==
    /\ TruthyStr(c.gpu_type)
    /\ ~c.num_gpus.some
    /\ ~c.internode_interconnect.some
    /\ ~c.intranode_interconnect.some

\* C10: with criteria.gpu_type set, an auction passes the GPU-type check iff
\* the lower-cased criterion occurs as a whole word in the auction's
\* lower-cased gpu_type; an auction without gpu_type never passes.
C10_GpuTypeWholeWord ==
    (fPc = "done" /\ TruthyStr(fCriteria.gpu_type)) =>
        \A i \in 1..Len(fAuctions) :
            LET a == fAuctions[i]
                whole == GpuCriterionSatisfied(a, fCriteria)
            IN  /\ ~whole => ~InSeq(a, fResult)
                /\ ~a.gpu_type.some => ~InSeq(a, fResult)
                /\ OnlyGpuCriterion(fCriteria) => (InSeq(a, fResult) <=> whole)

\* "A100" keeps "NVIDIA A100" and drops "NVIDIA A1000"
C10_Witness ==
    /\ fPc = "done"
    /\ fCriteria.gpu_type = Some(S_A100)
    /\ OnlyGpuCriterion(fCriteria)
    /\ Len(fAuctions) = 2
    /\ fAuctions[1].gpu_type = Some(S_NVIDIA_A1000)
    /\ fAuctions[2].gpu_type = Some(S_NVIDIA_A100)
    /\ fResult = <<fAuctions[2]>>


OnlyNumGpusCriterion(c) ==
    /\ ~c.gpu_type.some
    /\ c.num_gpus.some
    /\ ~c.internode_interconnect.some
    /\ ~c.intranode_interconnect.some

\* C11: with criteria.num_gpus set, an auction passes the capacity check iff
\* its inventory_quantity is present and at least the requested count; more
\* than requested still matches, absent inventory never does.
C11_CapacityAtLeastRequested ==
    (fPc = "done" /\ fCriteria.num_gpus.some) =>
        \A i \in 1..Len(fAuctions) :
            LET a == fAuctions[i]
                enough == /\ a.inventory_quantity.some
                          /\ a.inventory_quantity.v >= fCriteria.num_gpus.v
            IN  /\ ~enough => ~InSeq(a, fResult)
                /\ OnlyNumGpusCriterion(fCriteria) => (InSeq(a, fResult) <=> enough)

\* one GPU asked for: four on offer match, absent inventory does not
C11_Witness ==
    /\ fPc = "done"
    /\ OnlyNumGpusCriterion(fCriteria)
    /\ fCriteria.num_gpus.v = 1
    /\ Len(fAuctions) = 2
    /\ ~fAuctions[1].inventory_quantity.some
    /\ fAuctions[2].inventory_quantity = Some(4)
    /\ fResult = <<fAuctions[2]>>

----------------------------------------------------------------------------
(* Properties of the task manager.                                         *)

PlaceBidCalls == SelectSeq(tCalls, LAMBDA c : c.op = "place_bid")
CancelBidCalls == SelectSeq(tCalls, LAMBDA c : c.op = "cancel_bid")

Finished == tPc \in {"done", "failed"}

\* the positions of the returned auctions that satisfy the specification
SatisfyingAuctions(auctions, rs) ==
    {i \in 1..Len(auctions) : EveryPresentCriterionSatisfied(auctions[i], rs)}

Least(S) == CHOOSE i \in S : \A j \in S : i <= j

\* Every answer the platform has given so far is the one of the submit
\* scenario: a user id, one project and one SSH key with the configured
\* names, exactly one satisfying auction (with an instance type and a region
\* id, as in the scenario), and an accepted bid.
ScenarioPlatform ==
    /\ tSeen.user.st # "none" => tSeen.user.st = "ok" /\ tSeen.user.v # ""
    /\ tSeen.projects.st # "none" =>
          /\ tSeen.projects.st = "ok"
          /\ Len(tSeen.projects.v) = 1
          /\ tSeen.projects.v[1].name = foundry_project_name
          /\ tSeen.projects.v[1].id # ""
    /\ tSeen.ssh_keys.st # "none" =>
          /\ tSeen.ssh_keys.st = "ok"
          /\ Len(tSeen.ssh_keys.v) = 1
          /\ tSeen.ssh_keys.v[1].name = Some(foundry_ssh_key_name)
    /\ tSeen.auctions.st # "none" =>
          /\ tSeen.auctions.st = "ok"
          /\ LET sat == SatisfyingAuctions(tSeen.auctions.v,
                                           tConfig.v.resources_specification)
             IN  /\ Cardinality(sat) = 1
                 /\ TruthyId(tSeen.auctions.v[Least(sat)].instance_type_id)
                 /\ TruthyId(tSeen.auctions.v[Least(sat)].region_id)
    /\ tSeen.placed.st # "none" => tSeen.placed.st = "ok"

\* the one bid-submission call carries the scenario's identifiers
ScenarioBidSubmitted ==
    /\ tPc = "done"
    /\ Len(PlaceBidCalls) = 1
    /\ LET payload == PlaceBidCalls[1].arg
           auction == tSeen.auctions.v[
                          Least(SatisfyingAuctions(tSeen.auctions.v,
                                    tConfig.v.resources_specification))]
       IN  /\ payload.cluster_id = auction.cluster_id
           /\ payload.instance_type_id = auction.instance_type_id
           /\ payload.project_id = tSeen.projects.v[1].id
           /\ payload.ssh_key_ids = <<tSeen.ssh_keys.v[1].id>>
           /\ payload.user_id = tSeen.user.v
           /\ payload.instance_quantity = 1

\* a task file with nothing but a name and {gpu_type: "A100", num_gpus: 1}
NameAndResourcesOnly ==
    /\ tConfig.some
    /\ ~tConfig.v.task_management.some
    /\ tConfig.v.resources_specification = RS_A100x1
    /\ ~tConfig.v.persistent_storage.some
    /\ tConfig.v.ports = "none"

\* the same file with a task_management section that sets no price
NameResourcesAndTaskManagement ==
    /\ tConfig.some
    /\ tConfig.v.task_management.some
    /\ ~tConfig.v.task_management.v.utility_threshold_price.some
    /\ tConfig.v.resources_specification = RS_A100x1
    /\ ~tConfig.v.persistent_storage.some
    /\ tConfig.v.ports = "none"

\* C1 as stated: submit on a task file with only a name and a resources
\* specification, against the scenario's platform, completes with exactly
\* one bid-submission call carrying the scenario's identifiers.
C1_AsStated ==
    (tOp = "run" /\ Finished /\ NameAndResourcesOnly /\ ScenarioPlatform)
        => ScenarioBidSubmitted

\* C1 (amended): submit on a task file with a name, a task_management
\* section that sets no utility threshold price, and the resources
\* specification {A100, 1}, against the scenario's platform, completes with
\* exactly one bid-submission call carrying the auction's cluster_id and
\* instance_type_id, the project id, the SSH key id, the user id and
\* instance_quantity 1.
C1_SubmitScenario ==
    (tOp = "run" /\ Finished /\ NameResourcesAndTaskManagement /\ ScenarioPlatform)
        => ScenarioBidSubmitted

C1_Witness ==
    /\ tOp = "run" /\ tPc = "done"
    /\ NameResourcesAndTaskManagement /\ ScenarioPlatform
    /\ Len(PlaceBidCalls) = 1
    /\ PlaceBidCalls[1].arg.cluster_id = "c1"
    /\ PlaceBidCalls[1].arg.user_id = "u1"

\* C2: when the platform returns no auction, or none that satisfies the
\* resources specification, run() fails with NoMatchingAuctions and no bid
\* is submitted.
C2_NoMatchFails ==
    (tOp = "run" /\ tSeen.auctions.st = "ok"
        /\ SatisfyingAuctions(tSeen.auctions.v,
                              tConfig.v.resources_specification) = {})
        => /\ tPc = "failed"
           /\ tErr = "NoMatchingAuctionsError"
           /\ Len(PlaceBidCalls) = 0

C2_Witness ==
    /\ tOp = "run" /\ tPc = "failed"
    /\ tSeen.auctions.st = "ok"
    /\ Len(tSeen.auctions.v) = 2
    /\ SatisfyingAuctions(tSeen.auctions.v, tConfig.v.resources_specification) = {}
    /\ tErr = "NoMatchingAuctionsError"

\* C3: a submitted bid goes to the first auction, in the platform's order,
\* that satisfies the resources specification, never to a later one.
C3_FirstSatisfyingAuction ==
    (tOp = "run" /\ Len(PlaceBidCalls) >= 1) =>
        LET sat == SatisfyingAuctions(tSeen.auctions.v,
                                      tConfig.v.resources_specification)
            payload == PlaceBidCalls[1].arg
        IN  /\ Len(PlaceBidCalls) = 1
            /\ sat # {}
            /\ payload.cluster_id = tSeen.auctions.v[Least(sat)].cluster_id
            /\ payload.instance_type_id = tSeen.auctions.v[Least(sat)].instance_type_id

C3_Witness ==
    /\ tOp = "run" /\ tPc = "done"
    /\ Len(PlaceBidCalls) = 1
    /\ Len(tSeen.auctions.v) = 2
    /\ SatisfyingAuctions(tSeen.auctions.v, tConfig.v.resources_specification) = {1, 2}
    /\ tSeen.auctions.v[1].cluster_id # tSeen.auctions.v[2].cluster_id

\* the positions of the listed bids that carry the given name
NamedBids == {i \in 1..Len(tSeen.bids.v) : tSeen.bids.v[i].name = Some(tName)}

\* C5: cancel_bid(name) issues exactly one cancel call, for the id of the
\* first listed bid with that name; when no listed bid has the name it fails
\* with a not-found error and issues no cancel call.
C5_CancelFirstNamedBid ==
    (tOp = "cancel" /\ Finished /\ tSeen.bids.st = "ok") =>
        IF NamedBids = {}
        THEN /\ tPc = "failed"
             /\ tErr = "Exception"
             /\ Len(CancelBidCalls) = 0
        ELSE /\ Len(CancelBidCalls) = 1
             /\ CancelBidCalls[1].arg = tSeen.bids.v[Least(NamedBids)].id

C5_Witness ==
    /\ tOp = "cancel" /\ tPc = "done"
    /\ NamedBids = {1, 2}
    /\ tSeen.bids.v[1].id # tSeen.bids.v[2].id
    /\ Len(CancelBidCalls) = 1

----------------------------------------------------------------------------
(* Properties of get_instance_type.                                        *)

LastAttempt(attempts) == attempts[Len(attempts)]

IsPlaceholder(r) == r.kind = "value" /\ r.name = S_UnknownName

\* C4 as stated: get_instance_type returns the placeholder (the requested
\* id, name "[Unknown / Not Found]") only when the lookup failed with HTTP
\* status 404; a lookup that fails with any other status or error raises
\* that error and never yields the placeholder.
C4_PlaceholderOnlyOn404 ==
    iPc = "finished" =>
        LET last == LastAttempt(iAttempts)
            failed == ~(last.kind = "status" /\ last.status < 400)
            is404 == last.kind = "status" /\ last.status = 404
        IN  /\ IsPlaceholder(iResult) => (is404 /\ iResult.id = iId)
            /\ (failed /\ ~is404) => iResult.kind = "raise"

----------------------------------------------------------------------------
(* Properties of the Authenticator.                                        *)

EveryAttemptForcelisted ==
    \A i \in 1..Len(aAttempts) :
        /\ aAttempts[i].kind = "status"
        /\ aAttempts[i].status \in {429, 500, 502, 503, 504}

\* C6: when every login attempt is answered with a status in
\* {429, 500, 502, 503, 504}, the constructor issues exactly max_retries + 1
\* POST /login attempts and then fails with AuthenticationError built from
\* the final response; it never issues a further attempt and raises no
\* other error.
C6_LoginAttemptsExhausted ==
    (aPc \in {"sending", "finished"} /\ EveryAttemptForcelisted) =>
        /\ Len(aAttempts) <= aMaxRetries + 1
        /\ (Len(aAttempts) = aMaxRetries + 1) <=> (aPc = "finished")
        /\ aPc = "finished" =>
              aResult = AuthRaise("AuthenticationError",
                                  LastAttempt(aAttempts).status)

C6_Witness ==
    /\ aPc = "finished"
    /\ aMaxRetries = 3
    /\ Len(aAttempts) = 4
    /\ EveryAttemptForcelisted
    /\ aAttempts[1].status = 500
    /\ aAttempts[4].status = 503
    /\ aResult = AuthRaise("AuthenticationError", 503)

----------------------------------------------------------------------------
(* Properties of the command line.                                         *)

\* submit without a config file, or cancel without --task-name
RequiredArgumentMissing ==
    \/ cArgs.command = "submit" /\ cArgs.config_file = ""
    \/ cArgs.command = "cancel" /\ cArgs.task_name = ""

FailedByArgumentCheck ==
    /\ RequiredArgumentMissing
    /\ cPc = "exited"
    /\ cRaised = "SystemExit(1)"

\* C7 as stated: when submit has no config file or cancel has no
\* --task-name, the missing-argument check fails the command (plain error
\* log, exit 1) before any network request has been issued, the login request
\* and the user lookup of the client's construction included.
C7_CheckBeforeAnyRequest ==
    FailedByArgumentCheck =>
        /\ cRequests = <<>>
        /\ cLog = "plain"
        /\ cExit = 1

\* C7 (amended): when submit has no config file or cancel has no
\* --task-name, no request of the command's own workflow is ever issued and
\* the command never completes; the missing-argument check fails it (plain
\* error log, exit 1) once the platform client is constructed, that is after
\* the login request and the user lookup, and only those, have been issued.
C7_CheckAfterConstruction ==
    RequiredArgumentMissing =>
        /\ \A i \in 1..Len(cRequests) :
              cRequests[i] \in {LoginRequest, UserLookupRequest}
        /\ cPc # "running"
        /\ cRaised # "none"
        /\ FailedByArgumentCheck =>
              /\ cRequests = <<LoginRequest, UserLookupRequest>>
              /\ cLog = "plain"
              /\ cExit = 1

C7_Witness ==
    /\ cArgs.command = "cancel"
    /\ cArgs.task_name = ""
    /\ FailedByArgumentCheck
    /\ cRequests = <<LoginRequest, UserLookupRequest>>
    /\ cExit = 1

\* C8: the process exits with 0 when the dispatched command completes, with
\* 130 when a keyboard interrupt occurs at any point, and with 1 when another
\* exception escapes or when a required argument is missing.
C8_ExitCodes ==
    cPc = "exited" =>
        /\ cRaised = "none" =>
              /\ cExit = 0
              /\ cRequests = <<LoginRequest, UserLookupRequest>>
                                 \o CommandRequests(cArgs.command)
        /\ cRaised = "KeyboardInterrupt" => cExit = 130
        /\ cRaised = "Exception" => cExit = 1
        /\ FailedByArgumentCheck => cExit = 1
        /\ cArgs.command \in {"submit", "status", "cancel"} => cExit \in {0, 1, 130}

\* interrupted in the middle of the command's requests
C8_Witness ==
    /\ cPc = "exited"
    /\ cRaised = "KeyboardInterrupt"
    /\ cExit = 130
    /\ Len(cRequests) = 4
----------------------------------------------------------------------------
(* Properties of prepare_limit_price_cents.                                *)

\* the cents in a whole-cent amount held in thousandths of a dollar
CentsOf(mills) == IF mills >= 0 THEN mills \div 10 ELSE -((-mills) \div 10)

\* C12 as stated: prepare_limit_price_cents returns the cents value of the
\* utility threshold price whenever one is supplied, whatever the priority;
\* without a threshold it returns the cents value of the table entry of the
\* lower-cased priority, and fails with ValueError for a priority the table
\* does not hold.
C12_LimitPriceCents ==
    pPc = "done" =>
        IF pThreshold.some
        THEN pResult = [err |-> "", v |-> CentsOf(pThreshold.v)]
        ELSE LET entries == {e \in PRIORITY_PRICE_MAPPING : e[1] = Lower(pPriority)}
             IN  IF entries = {}
                 THEN pResult.err = "ValueError"
                 ELSE \E e \in entries : pResult = [err |-> "", v |-> CentsOf(e[2])]
----------------------------------------------------------------------------
(* Properties of persistent storage in the submit workflow.                *)

CreateDiskCalls == SelectSeq(tCalls, LAMBDA c : c.op = "create_disk")

\* C13: when the creation of persistent storage succeeds, the DiskAttachment
\* handle_persistent_storage returns, and the disk attachment of the
\* submitted bid payload, carry the disk id of the platform's create-disk
\* response, not the client-generated id sent in the creation request.
C13_ServerDiskIdWins ==
    (tOp = "run" /\ tSeen.created.st = "ok") =>
        /\ Len(CreateDiskCalls) = 1
        /\ CreateDiskCalls[1].arg.disk_id = ClientDiskId
        /\ tLoc.disk.some
        /\ tLoc.disk.v.disk_id = tSeen.created.v
        /\ \A i \in 1..Len(PlaceBidCalls) :
              LET attachments == PlaceBidCalls[i].arg.disk_attachments
              IN  /\ Len(attachments) = 1
                  /\ attachments[1].disk_id = tSeen.created.v

C13_Witness ==
    /\ tOp = "run" /\ tPc = "done"
    /\ tSeen.created = Returns("disk-srv")
    /\ Len(PlaceBidCalls) = 1
    /\ PlaceBidCalls[1].arg.disk_attachments[1].disk_id = "disk-srv"
    /\ CreateDiskCalls[1].arg.disk_id = "client-uuid"
----------------------------------------------------------------------------
(* Properties of check_status.                                             *)

HasNameAndStatus(bid) ==
    /\ bid.name.some /\ bid.name.v # ""
    /\ bid.status.some /\ bid.status.v # ""

\* C14: with show_all false, check_status hands the formatter exactly the
\* returned bids that have both a non-empty name and a non-empty status, in
\* their original order; with show_all true it hands over every returned
\* bid.
C14_StatusFiltering ==
    (sPc = "done" /\ sShown.some) =>
        /\ sBids.st = "ok"
        /\ sShown.bids = IF sShowAll THEN sBids.v
                          ELSE SelectSeq(sBids.v, HasNameAndStatus)

\* the three bids {a, active}, {None, active}, {b, None}: one is shown
C14_Witness ==
    /\ sPc = "done"
    /\ ~sShowAll
    /\ sBids.st = "ok"
    /\ Len(sBids.v) = 3
    /\ sBids.v[1] = Bid("b1", Some("a"), Some("active"))
    /\ sBids.v[2] = Bid("b2", NoneId, Some("active"))
    /\ sBids.v[3] = Bid("b3", Some("b"), NoneId)
    /\ sShown = [some |-> TRUE, bids |-> <<sBids.v[1]>>]
----------------------------------------------------------------------------
(* Properties of _resolve_region_id.                                       *)

RegionsFetched == rgPc = "done" /\ rgRegions.st = "ok"

IdMatches == { i \in 1..Len(rgRegions.v) : rgRegions.v[i].region_id = rgStr }

NameMatches == { i \in 1..Len(rgRegions.v) : rgRegions.v[i].name = rgStr }

\* C15: _resolve_region_id(s) returns the id of a region whose region_id
\* equals s whenever one exists, even if an earlier region of the fetched
\* list has a name equal to s; only when no region_id equals s does it
\* return the id of the first region whose name equals s; when neither
\* exists it fails.
C15_IdBeforeName ==
    RegionsFetched =>
        /\ IdMatches # {} =>
              /\ rgResult.st = "ok"
              /\ \E i \in IdMatches : rgResult.v = rgRegions.v[i].region_id
        /\ (IdMatches = {} /\ NameMatches # {}) =>
              /\ rgResult.st = "ok"
              /\ \E i \in NameMatches :
                    /\ \A j \in NameMatches : i <= j
                    /\ rgResult.v = rgRegions.v[i].region_id
        /\ (IdMatches = {} /\ NameMatches = {}) =>
              rgResult = [st |-> "raise", v |-> "ValueError"]

\* a region named s precedes the region whose id is s, and the id wins
C15_Witness ==
    /\ RegionsFetched
    /\ \E i \in NameMatches : \E j \in IdMatches :
          /\ i < j
          /\ rgRegions.v[i].region_id # rgStr
          /\ rgResult = Returns(rgRegions.v[j].region_id)
----------------------------------------------------------------------------
(* Properties of the exception classes.                                    *)

ClassName(cls, name) ==
    cls \in { "exceptions." \o name, "task_manager." \o name }

\* C16: the NoMatchingAuctions and BidSubmissionFailure errors the submit
\* workflow raises are caught by a handler for APIFailure, and the
\* NetworkFailure and RequestTimeout errors the platform clients raise are
\* caught by a handler for AuthenticationFailure.
C16_ParentHandlerCatches ==
    xPc = "done" =>
        /\ ( /\ xSite \in WorkflowRaiseSites
             /\ \/ ClassName(xRaised, "NoMatchingAuctionsError")
                \/ ClassName(xRaised, "BidSubmissionError")
             /\ xHandler = "exceptions.APIError" ) => xCaught
        /\ ( /\ xSite \in ClientRaiseSites
             /\ \/ ClassName(xRaised, "NetworkError")
                \/ ClassName(xRaised, "TimeoutError")
             /\ ClassName(xHandler, "AuthenticationError") ) => xCaught
----------------------------------------------------------------------------
(* Properties of the spinner logger.                                       *)

ScopeEntered == Len(spScopes') = Len(spScopes) + 1

ScopeLeft == spScopes # <<>> /\ spScopes' = Tail(spScopes)

RecordIntercepted == Len(spRecords') = Len(spRecords) + 1

\* C17: entering a spinner scope while the spinner is active starts no
\* second spinner: the running one keeps running, its text becomes the new
\* message, and the active flag and the sub-step state stay as they were.
C17_ReentryOnlyRetexts ==
    [][ (spW.spinner_active /\ ScopeEntered) =>
            /\ spW'.spinner_active
            /\ spW'.progress
            /\ spW'.starts = spW.starts
            /\ spW'.stops = spW.stops
            /\ spW'.description = Head(spScopes').message
            /\ spW'.sub_steps_enabled = spW.sub_steps_enabled
            /\ spW'.sub_steps = spW.sub_steps
            /\ spW'.log_buffer = spW.log_buffer
            /\ spW'.console = spW.console ]_vars

\* an inner scope has changed the text of the spinner the outer one started
C17_Witness ==
    /\ Len(spScopes) = 2
    /\ ~spScopes[1].started
    /\ spScopes[2].started
    /\ spScopes[1].message # spScopes[2].message
    /\ spW.description = spScopes[1].message
    /\ spW.starts = 1
    /\ spW.sub_steps_enabled
    /\ spW.sub_steps # <<>>

\* C18: whenever the scope that started the spinner is left, normally or
\* because the wrapped code raised, the spinner is stopped and the active
\* flag is cleared, and an exception of the wrapped code still reaches the
\* caller.
C18_ExitStopsSpinner ==
    [][ (ScopeLeft /\ Head(spScopes).started) =>
            /\ ~spW'.spinner_active
            /\ ~spW'.progress
            /\ spW'.stops = spW.stops + 1
            /\ spW'.stops = spW'.starts
            /\ spExit'.raised => spExit'.propagated ]_vars

\* the scope that started the spinner was left by an exception
C18_Witness ==
    /\ spExit.left
    /\ spExit.started
    /\ spExit.raised
    /\ spExit.propagated
    /\ spScopes = <<>>
    /\ ~spW.spinner_active
    /\ spW.stops = 1

RecordCalls == SelectSeq(spW.calls, LAMBDA c : c.kind = "record")

\* C19: every intercepted record is logged again through the wrapped
\* logger exactly once and at the level it was emitted with, whether or
\* not a spinner is active.
C19_RelogAtOriginalLevel ==
    /\ Len(RecordCalls) = Len(spRecords)
    /\ \A i \in 1..Len(spRecords) :
          /\ RecordCalls[i].msg = i
          /\ RecordCalls[i].level = spRecords[i]

\* C20: a record intercepted while no spinner is active is appended to the
\* buffer and not shown; when the spinner next starts, the buffered records
\* are shown as sub-steps once each, in their order, and the buffer is left
\* empty; a record intercepted while the spinner is active is shown at once
\* and not buffered.
C20_BufferThenFlush ==
    [][ /\ (RecordIntercepted /\ ~spW.spinner_active) =>
              /\ spW'.log_buffer = Append(spW.log_buffer, Len(spRecords'))
              /\ spW'.console = spW.console
        /\ (RecordIntercepted /\ spW.spinner_active) =>
              /\ spW'.console = Append(spW.console, Len(spRecords'))
              /\ spW'.log_buffer = spW.log_buffer
        /\ (~spW.spinner_active /\ spW'.spinner_active) =>
              /\ spW'.console = spW.console \o spW.log_buffer
              /\ spW'.log_buffer = <<>>
              /\ spW'.sub_steps = IF spW'.sub_steps_enabled
                                   THEN spW.log_buffer ELSE <<>>
        /\ (~RecordIntercepted /\ spW.spinner_active = spW'.spinner_active) =>
              /\ spW'.console = spW.console
              /\ spW'.log_buffer = spW.log_buffer ]_vars

\* two records arrived before the spinner started and were flushed into it
C20_Witness ==
    /\ spW.spinner_active
    /\ spW.starts = 1
    /\ spW.log_buffer = <<>>
    /\ spW.console = <<1, 2>>
    /\ Len(spW.calls) = 3
    /\ spW.calls[1].kind = "record"
    /\ spW.calls[2].kind = "record"
    /\ spW.calls[3].kind = "start"
----------------------------------------------------------------------------
(* Properties of Port.                                                     *)

\* the ports a valid side stands for: the integer itself, or A..B ascending
PortSequence(port_value) ==
    IF port_value.kind = "int" THEN <<port_value.n>>
    ELSE LET parts == SplitDash(port_value.s)
         IN  IF Len(parts) = 1 THEN <<ParseDigits(parts[1])>>
             ELSE LET A == ParseDigits(parts[1])
                      B == ParseDigits(parts[2])
                  IN  [i \in 1..(B - A + 1) |-> A + (i - 1)]

BothSidesSet(port) == port.external.kind # "none" /\ port.internal.kind # "none"

InPortRange(n) == 1 <= n /\ n <= 65535

SideWellFormed(port_value) ==
    \/ port_value.kind = "int" /\ InPortRange(port_value.n)
    \/ /\ port_value.kind = "str"
       /\ LET parts == SplitDash(port_value.s)
          IN  /\ Len(parts) \in { 1, 2 }
              /\ \A i \in 1..Len(parts) :
                    IsDigit(parts[i]) /\ InPortRange(ParseDigits(parts[i]))
              /\ Len(parts) = 2 => ParseDigits(parts[1]) <= ParseDigits(parts[2])

\* C22: every Port that validation accepts has both external and internal
\* set, each to an integer in 1..65535 or to a range "A-B" with
\* 1 <= A <= B <= 65535.
C22_AcceptedPortsWellFormed ==
    ptPc \in { "accepted", "mapped" } =>
        /\ SideWellFormed(ptPort.external)
        /\ SideWellFormed(ptPort.internal)
----------------------------------------------------------------------------
(* Properties of Instance construction.                                    *)

Kept(field) == inArgs[field].some => inObj[field] = inArgs[field]

\* C23 as stated: construction never changes instance_type, ip_address,
\* category or region when the caller supplied it.
C23_AsStated ==
    inPc = "done" =>
        \A field \in { "instance_type", "ip_address", "category", "region" } :
            Kept(field)

IpOverridable ==
    /\ \/ inArgs.ip_address.v = <<>>
       \/ Strip(inArgs.ip_address.v) = S_Placeholder
    /\ inArgs.connection_info.kind = "dict"
    /\ inArgs.connection_info.has

\* C23: construction never changes a supplied instance_type, category or
\* region; a supplied ip_address is kept too, except that an empty one or
\* one equal to "---" after stripping is replaced by the ip_address of
\* connection_info when connection_info is a mapping holding that key.
C23_SuppliedKeptExceptPlaceholderIp ==
    inPc = "done" =>
        /\ \A field \in { "instance_type", "category", "region" } : Kept(field)
        /\ inArgs.ip_address.some =>
              inObj.ip_address = IF IpOverridable
                                 THEN Some(inArgs.connection_info.v)
                                 ELSE inArgs.ip_address

\* all four fields supplied, with every source of a derived value present
C23_Witness ==
    /\ inPc = "done"
    /\ \A field \in { "instance_type", "ip_address", "category", "region" } :
          inArgs[field].some /\ inObj[field] = inArgs[field]
    /\ TruthyStr(inArgs.ip_address)
    /\ TruthyStr(inArgs.ssh_destination)
    /\ TruthyStr(inArgs.order_type)
    /\ inArgs.metadata.has
    /\ inArgs.connection_info.has
----------------------------------------------------------------------------
(* Properties of format_instances.                                         *)

HasStartDate(instance) == instance.start_date.kind # "none"

\* the rows are some of the given instances, each used at most once
RowsAreInstances(rows, instances) ==
    \E pick \in [1..Len(rows) -> 1..Len(instances)] :
        /\ \A k \in 1..Len(rows) : rows[k] = instances[pick[k]]
        /\ \A k, l \in 1..Len(rows) : k # l => pick[k] # pick[l]

\* C24: for a non-empty list of instances, with or without start dates in
\* any mixture, format_instances renders min(max_rows, number of
\* instances) rows, in descending order of start date, every instance
\* without a start date after all those with one, and no instance left
\* out is newer than one that is shown.
C24_NewestFirstTruncated ==
    (fiPc = "done" /\ fiInstances # <<>>) =>
        /\ fiRows.st = "ok"
        /\ Len(fiRows.v) = (IF Len(fiInstances) <= fiMaxRows
                             THEN Len(fiInstances) ELSE fiMaxRows)
        /\ RowsAreInstances(fiRows.v, fiInstances)
        /\ \A k, l \in 1..Len(fiRows.v) :
              k < l =>
                /\ HasStartDate(fiRows.v[l]) => HasStartDate(fiRows.v[k])
                /\ (HasStartDate(fiRows.v[k]) /\ HasStartDate(fiRows.v[l])) =>
                      fiRows.v[k].start_date.t >= fiRows.v[l].start_date.t
----------------------------------------------------------------------------
(* Properties of place_bid.                                                *)

BidsCreated == Cardinality({ k \in 1..Len(pbAttempts) : pbAttempts[k].created })

\* C25: one place_bid call leaves at most one bid on the platform, however
\* many times the session sent the POST again after a 429 or 5xx answer.
C25_AtMostOneBidPerCall ==
    BidsCreated <= 1

----------------------------------------------------------------------------
(* C26: disks created by a run that fails.                                 *)

DeleteDiskCalls == SelectSeq(tCalls, LAMBDA c : c.op = "delete_disk")

\* the disk the platform created during this run is named by the bid
DiskAttachedToBid ==
    /\ tPc = "done"
    /\ Len(PlaceBidCalls) = 1
    /\ tSeen.placed.st = "ok"
    /\ \E i \in 1..Len(PlaceBidCalls[1].arg.disk_attachments) :
          PlaceBidCalls[1].arg.disk_attachments[i].disk_id = tSeen.created.v

\* C26: when run() has finished and the platform created a disk during it,
\* the disk is attached to a bid that was submitted successfully or a
\* delete_disk request for it was issued before the error was reported.
C26_NoDiskLeftBehind ==
    (tOp = "run" /\ Finished /\ tSeen.created.st = "ok")
        => \/ DiskAttachedToBid
           \/ \E i \in 1..Len(DeleteDiskCalls) :
                 DeleteDiskCalls[i].arg = tSeen.created.v

----------------------------------------------------------------------------
(* C27: the order of the platform requests of run().                       *)

\* the place of each platform operation in the submit workflow
OpRank(op) ==
    CASE op = "get_user" -> 1
      [] op = "get_projects" -> 2
      [] op = "get_ssh_keys" -> 3
      [] op = "get_auctions" -> 4
      [] op = "get_regions" -> 5
      [] op = "create_disk" -> 6
      [] op = "place_bid" -> 7
      [] OTHER -> 0

\* the answer the platform gave to an operation of this run
AnswerTo(op) ==
    CASE op = "get_user" -> tSeen.user
      [] op = "get_projects" -> tSeen.projects
      [] op = "get_ssh_keys" -> tSeen.ssh_keys
      [] op = "get_auctions" -> tSeen.auctions
      [] op = "get_regions" -> tSeen.region
      [] op = "create_disk" -> tSeen.created
      [] OTHER -> tSeen.placed

Requested(op) == \E i \in 1..Len(tCalls) : tCalls[i].op = op

\* the configuration was extracted, the limit price computed and the
\* bootstrap script built, all without an error, and run() holds the results
PreparedLocally ==
    /\ tConfig.some
    /\ ExtractAndPrepareData(tConfig.v).err = ""
    /\ BuildStartupScripts(tConfig.v).err = ""
    /\ tLoc.task_name = ExtractAndPrepareData(tConfig.v).task_name
    /\ tLoc.limit_price_cents = ExtractAndPrepareData(tConfig.v).limit_price_cents
    /\ tLoc.startup_script = BuildStartupScripts(tConfig.v).v

\* what each step needs of the steps before it, beyond their answers
StepPreconditions ==
    /\ Requested("get_projects") => tSeen.user.v # ""
    /\ Requested("get_ssh_keys") =>
           SelectProjectId(tSeen.projects.v, foundry_project_name).err = ""
    /\ Requested("get_auctions") =>
           SelectSshKeyId(tSeen.ssh_keys.v, foundry_ssh_key_name).err = ""
    /\ (Requested("get_regions") \/ Requested("create_disk") \/ Requested("place_bid"))
           => FindMatchingAuctions(tSeen.auctions.v,
                                   tConfig.v.resources_specification) # <<>>
    /\ Requested("get_regions") =>
           ~TruthyId(SelectAuction(tLoc.matching_auctions).region_id)
    /\ Requested("create_disk") =>
           /\ tConfig.v.persistent_storage.some
           /\ tConfig.v.persistent_storage.v.create.some
    /\ (Requested("place_bid") /\ tConfig.v.persistent_storage.some
            /\ tConfig.v.persistent_storage.v.create.some)
           => Requested("create_disk")

----------------------------------------------------------------------------
(* C28: the region of the disk-creation request.                           *)

\* _prepare_and_submit_bid has run
SubmitStepRan == tOp = "run" /\ Finished /\ tLoc.matching_auctions # <<>>

\* the region id resolved for the selected auction: its region_id, else the
\* id the name lookup of its region answered, else none ("")
ResolvedRegionId ==
    LET selected_auction == SelectAuction(tLoc.matching_auctions)
    IN  IF TruthyId(selected_auction.region_id) THEN selected_auction.region_id.v
        ELSE IF TruthyId(selected_auction.region) /\ tSeen.region.st = "ok"
             THEN tSeen.region.v
        ELSE ""

DiskRequestsInResolvedRegion ==
    \A i \in 1..Len(CreateDiskCalls) :
        /\ ResolvedRegionId # ""
        /\ CreateDiskCalls[i].arg.region_id = ResolvedRegionId

----------------------------------------------------------------------------
(* C29: one SpinnerLogger, nested scopes.                                  *)

\* the Progress displays started and not yet stopped
RunningDisplays == spW.starts - spW.stops

\* C29: for one SpinnerLogger and properly nested scopes, left normally or
\* with an exception, the spinner runs and the active flag is set exactly
\* while a scope is open; only the outermost scope started the spinner, so
\* leaving an inner scope leaves it running and leaving the outermost one
\* stops it.
C29_ActiveWhileScopeOpen ==
    /\ spW.spinner_active <=> spScopes # <<>>
    /\ spW.progress <=> spScopes # <<>>
    /\ RunningDisplays = IF spScopes # <<>> THEN 1 ELSE 0
    /\ \A i \in 1..Len(spScopes) : spScopes[i].started <=> i = Len(spScopes)

\* an inner scope was just left, with an exception, and the outer one is
\* still open
C29_Witness ==
    /\ spExit.left /\ ~spExit.started /\ spExit.raised
    /\ Len(spScopes) = 1
    /\ spW.spinner_active
    /\ RunningDisplays = 1

----------------------------------------------------------------------------
(* C30: the spinners of one CLI command.                                   *)

\* the Progress displays running in the process
DisplaysRunning == (dCli.starts - dCli.stops) + (dTm.starts - dTm.stops)

\* C30: at every point of a CLI command at most one spinner display is
\* running in the process; while the command's own scope in main() is
\* open the task manager starts no second one.
C30_AtMostOneDisplay == DisplaysRunning <= 1

====
